---- MODULE Spec2Model ----
(***************************************************************************)
(* Slot reservation and booking core of the amrutam backend.               *)
(*                                                                         *)
(* The model follows backend/src/routes/appointments.ts (lock, confirm,    *)
(* cancel, complete), the helpers of the shared package, the unique        *)
(* indexes of the database schema and the slot clean-up job of the queue   *)
(* service.  Every `await` of a handler is a suspension point, so every    *)
(* database statement is one step of the request that runs it and the      *)
(* statements of different requests interleave freely.  The wall clock     *)
(* `now` advances on its own between any two statements.                   *)
(*                                                                         *)
(* Time is counted in abstract ticks and the durations of the code are     *)
(* scaled to a few ticks each, keeping their order.                        *)
(***************************************************************************)
EXTENDS Integers, FiniteSets, Sequences, Bags, TLC

----------------------------------------------------------------------------
(* Bounds of the model *)

NumReqs == 2        \* requests that may be in flight at once
MaxTime == 3        \* last value of the wall clock
MaxLocks == 2       \* SlotLock rows ever created
MaxAppts == 1       \* largest appointment id a caller names

(* Program constants, in ticks *)

LockWindow == 1     \* 5 * 60 * 1000 ms
CancelWindow == 2   \* 24 hours

Null == -1          \* a NULL column

\* <<date, startTime>> of the slot the doctor has published: one that starts
\* within the model's horizon and one that starts after it
SlotSeeds == {<<1, 1>>, <<3, 1>>}

Slots == {"s1", "s2"}                   \* the rows of time_slots
SlotIds == {"s1", "s0"}                 \* ids most callers name; "s0" has no row
Patients == {"p1", "p2"}
Doctors == {"d1", "d2"}
Users == Patients \cup Doctors \cup {"admin"}
SlotDoctor == "d1"
OTPs == {"111111", "222222"}            \* values generateOTP may return
ApptIds == 1 .. MaxAppts
Prescriptions == {"none", "rx"}         \* body.prescription; "none": not given
FollowUps == {Null, 2}                  \* body.followUpDate; Null: not given

VARIABLES
    now,            \* wall clock (new Date(), Date.now())
    timeSlot,       \* table time_slots: slot id -> row
    slotLock,       \* table slot_locks: set of rows
    appointment,    \* table appointments: sequence of rows, id = index
    nextLockId,     \* next SlotLock id
    inflight,       \* bag of the requests in flight: position, arguments, locals
    response,       \* the response sent by the last step, if it sent one
    cleanup,        \* position of the slot clean-up job
    rules,          \* table recurring_availability_rules: set of rows
    otpRun          \* a call of generateOTP: its argument, i and otp

vars ==
    <<now, timeSlot, slotLock, appointment, nextLockId, inflight, response, cleanup, rules, otpRun>>

----------------------------------------------------------------------------
(* Rows and helpers *)

\* no row of recurring_availability_rules
NoRule ==
    [doctorId |-> "none", dayOfWeek |-> Null, startTime |-> Null, endTime |-> Null,
     isActive |-> FALSE, startDate |-> Null, endDate |-> Null]

\* A request: its operation and position (pc), its arguments (user, slot, appt,
\* otp, prescription, followUpDate, slots, rule) and what it has read or
\* written so far (until, lockId).
Request(pc, user, slot, appt) ==
    [pc |-> pc, user |-> user, slot |-> slot, appt |-> appt, otp |-> "none",
     until |-> Null, lockId |-> Null, prescription |-> "none", followUpDate |-> Null,
     slots |-> <<>>, rule |-> NoRule,
     consultationMode |-> "ONLINE", symptoms |-> "", notes |-> ""]

\* No call of generateOTP is under way.
OtpIdle == [pc |-> "idle", length |-> Null, i |-> Null, otp |-> ""]

\* The clean-up job: between runs, or between its two statements.
CleanupIdle == [pc |-> "idle", startedAt |-> Null]

NoResponse == [op |-> "none", res |-> "none", rq |-> Request("none", "none", "none", Null)]

Role(u) ==
    IF u \in Patients THEN "PATIENT"
    ELSE IF u \in Doctors THEN "DOCTOR" ELSE "ADMIN"

\* new Date(slot.date); setHours(hours, minutes, 0, 0)
SlotDateTime(s) == timeSlot[s].date + timeSlot[s].startTime

\* A faulty check, against which C19 is tested: a slot that starts at this
\* very moment counts as future.
IsFutureOrNow(s) == SlotDateTime(s) >= now

\* the inline check of the lock handler: slotDateTime <= new Date() is refused
IsFuture(s) == SlotDateTime(s) > now

\* canCancelOrReschedule(appointmentDate): hoursDifference > 24
canCancelOrReschedule(appointmentDate) == appointmentDate - now > CancelWindow

\* appointment a has a row (a row the database has deleted leaves its id unused)
AppointmentExists(a) == a <= Len(appointment) /\ appointment[a].status # "DELETED"

LocksOf(s) == {l \in slotLock : l.slotId = s}
ApptsOf(s) == {a \in 1 .. Len(appointment) : appointment[a].slotId = s}

InFlight == BagToSet(inflight)
Capacity == BagCardinality(inflight) < NumReqs

\* A request arrives and is refused or fails at once: it answers.
Reject(op, q, outcome) ==
    /\ response' = [op |-> op, res |-> outcome, rq |-> q]
    /\ UNCHANGED inflight

\* A request arrives and goes on to its first write.
Accept(q) ==
    /\ inflight' = inflight (+) SetToBag({q})
    /\ response' = NoResponse

\* The request q in flight moves on as q2.
Continue(q, q2) ==
    /\ inflight' = (inflight (-) SetToBag({q})) (+) SetToBag({q2})
    /\ response' = NoResponse

\* The request q in flight answers.
Respond(op, q, outcome) ==
    /\ inflight' = inflight (-) SetToBag({q})
    /\ response' = [op |-> op, res |-> outcome, rq |-> q]

\* The request q in flight answers, having last become q2.
RespondAs(op, q, q2, outcome) ==
    /\ inflight' = inflight (-) SetToBag({q})
    /\ response' = [op |-> op, res |-> outcome, rq |-> q2]

----------------------------------------------------------------------------
Init ==
    /\ now = 0
    /\ \E seed \in SlotSeeds : timeSlot = [s \in Slots |->
          [doctorId |-> SlotDoctor, date |-> seed[1],
           startTime |-> IF s = "s1" THEN seed[2] ELSE seed[2] + 1,
           endTime |-> IF s = "s1" THEN seed[2] + 1 ELSE seed[2] + 2,
           status |-> "AVAILABLE", appointmentId |-> Null, lockedUntil |-> Null,
           updatedAt |-> 0]]
    /\ slotLock = {}
    /\ appointment = <<>>
    /\ nextLockId = 1
    /\ inflight = EmptyBag
    /\ response = NoResponse
    /\ cleanup = CleanupIdle
    /\ rules = {}
    /\ otpRun = OtpIdle

\* The wall clock advances.
Tick ==
    /\ now < MaxTime
    /\ now' = now + 1
    /\ response' = NoResponse
    /\ UNCHANGED <<timeSlot, slotLock, appointment, nextLockId, inflight, cleanup, rules, otpRun>>

----------------------------------------------------------------------------
(* POST /slots/:slotId/lock *)

LocksInFlight ==
    BagCardinality([q \in {x \in InFlight : x.pc \in {"lock_update", "lock_create"}}
                        |-> inflight[q]])

\* The request arrives: findUnique, the three checks and the two expiry
\* timestamps.  (The value generateOTP returns is first used by LockCreate and
\* is drawn there.)
LockFindBody(p, s, consultationMode, symptoms, notes) ==
    /\ Capacity
    /\ nextLockId + LocksInFlight <= MaxLocks
    /\ LET q == [Request("lock_find", p, s, Null)
                   EXCEPT !.consultationMode = consultationMode,
                          !.symptoms = symptoms, !.notes = notes] IN
         \/ /\ s \notin DOMAIN timeSlot
            /\ Reject("lock", q, "NotFound")
         \/ /\ s \in DOMAIN timeSlot
            /\ timeSlot[s].status # "AVAILABLE"
            /\ Reject("lock", q, "Conflict")
         \/ /\ s \in DOMAIN timeSlot
            /\ timeSlot[s].status = "AVAILABLE"
            /\ ~IsFuture(s)
            /\ Reject("lock", q, "PastSlot")
         \/ /\ s \in DOMAIN timeSlot
            /\ timeSlot[s].status = "AVAILABLE"
            /\ IsFuture(s)
            /\ Accept([q EXCEPT !.pc = "lock_update", !.until = now + LockWindow])
    /\ UNCHANGED <<now, timeSlot, slotLock, appointment, nextLockId, cleanup, rules, otpRun>>

\* the request with the body { consultationMode: 'ONLINE' }
LockFind(p, s) == LockFindBody(p, s, "ONLINE", "", "")

\* prisma.timeSlot.update({ where: { id }, data: { status: 'LOCKED', lockedUntil } })
LockUpdate(q) ==
    /\ q.pc = "lock_update"
    /\ timeSlot' = [timeSlot EXCEPT ![q.slot].status = "LOCKED",
                                    ![q.slot].lockedUntil = q.until,
                                    ![q.slot].updatedAt = now]
    /\ Continue(q, [q EXCEPT !.pc = "lock_create"])
    /\ UNCHANGED <<now, slotLock, appointment, nextLockId, cleanup, rules, otpRun>>

\* A request to release the lock on slot s: the appointments router has the
\* routes lock, confirm, cancel and complete and none to release, so the
\* request falls through the routers to notFound and writes nothing.
ReleaseLock(p, s) ==
    /\ Reject("release", Request("release", p, s, Null), "NotFound")
    /\ UNCHANGED <<now, timeSlot, slotLock, appointment, nextLockId, cleanup, rules, otpRun>>

\* A database without the unique index on slot_locks.slotId, against which
\* C20 is tested.
SlotLockCreateUnchecked(s) == TRUE

\* the unique index slot_locks_slotId_key
SlotLockCreateAllowed(s) == LocksOf(s) = {}

\* prisma.slotLock.create, deleteCache, res.json; a failed create is caught
\* by the handler's catch and answered with status 500
LockCreate(q) ==
    /\ q.pc = "lock_create"
    /\ \/ /\ SlotLockCreateAllowed(q.slot)
          /\ \E otp \in OTPs :
               slotLock' = slotLock \cup
                  {[id |-> nextLockId, slotId |-> q.slot, patientId |-> q.user,
                    lockedUntil |-> q.until, otp |-> otp, otpExpiresAt |-> q.until]}
          /\ nextLockId' = nextLockId + 1
          /\ RespondAs("lock", q, [q EXCEPT !.lockId = nextLockId], "Ok")
       \/ /\ ~SlotLockCreateAllowed(q.slot)
          /\ Respond("lock", q, "Error")
          /\ UNCHANGED <<slotLock, nextLockId>>
    /\ UNCHANGED <<now, timeSlot, appointment, cleanup, rules, otpRun>>

----------------------------------------------------------------------------
(* POST /slots/:slotId/confirm *)

\* A faulty lookup, against which C16 is tested: the passcode is not compared.
FindSlotLockAnyOtp(s, p, otp) ==
    {l \in slotLock : /\ l.slotId = s
                      /\ l.patientId = p
                      /\ l.otpExpiresAt > now}

\* A faulty lookup, against which C23 is tested: the slot is not compared.
FindSlotLockAnySlot(s, p, otp) ==
    {l \in slotLock : /\ l.patientId = p
                      /\ l.otp = otp
                      /\ l.otpExpiresAt > now}

\* A lookup that does not ask whose lock it is, against which C34 is tested.
FindSlotLockAnyPatient(s, p, otp) ==
    {l \in slotLock : /\ l.slotId = s
                      /\ l.otp = otp
                      /\ l.otpExpiresAt > now}

\* prisma.slotLock.findFirst({ where: { slotId, patientId, otp,
\*                                      otpExpiresAt: { gt: new Date() } } })
FindSlotLock(s, p, otp) ==
    {l \in slotLock : /\ l.slotId = s
                      /\ l.patientId = p
                      /\ l.otp = otp
                      /\ l.otpExpiresAt > now}

\* The request arrives: findFirst and the two checks.
ConfirmFind(p, s, otp) ==
    /\ Capacity
    /\ LET q == [Request("confirm_find", p, s, Null) EXCEPT !.otp = otp] IN
         \/ /\ FindSlotLock(s, p, otp) = {}
            /\ Reject("confirm", q, "InvalidOtpOrExpired")
         \/ /\ \E l \in FindSlotLock(s, p, otp) : timeSlot[l.slotId].status # "LOCKED"
            /\ Reject("confirm", q, "Conflict")
         \/ /\ \E l \in FindSlotLock(s, p, otp) :
                 /\ timeSlot[l.slotId].status = "LOCKED"
                 /\ Accept([q EXCEPT !.pc = "confirm_create", !.lockId = l.id,
                                     !.until = l.otpExpiresAt])
    /\ UNCHANGED <<now, timeSlot, slotLock, appointment, nextLockId, cleanup, rules, otpRun>>

\* A database without the unique index on appointments.slotId, against which
\* C17 is tested.
AppointmentCreateUnchecked(s) == TRUE

\* the unique index appointments_slotId_key
AppointmentCreateAllowed(s) == ApptsOf(s) = {}

\* prisma.appointment.create; a failed create is answered with status 500
ConfirmCreate(q) ==
    /\ q.pc = "confirm_create"
    /\ \/ /\ AppointmentCreateAllowed(q.slot)
          /\ appointment' = Append(appointment,
                [patientId |-> q.user, doctorId |-> timeSlot[q.slot].doctorId,
                 slotId |-> q.slot, status |-> "CONFIRMED",
                 consultationMode |-> "ONLINE", symptoms |-> "", notes |-> "",
                 prescription |-> "none", followUpDate |-> Null,
                 cancelledAt |-> Null, cancelledBy |-> "none",
                 cancellationReason |-> "none"])
          /\ Continue(q, [q EXCEPT !.pc = "confirm_update",
                                   !.appt = Len(appointment) + 1])
       \/ /\ ~AppointmentCreateAllowed(q.slot)
          /\ Respond("confirm", q, "Error")
          /\ UNCHANGED appointment
    /\ UNCHANGED <<now, timeSlot, slotLock, nextLockId, cleanup, rules, otpRun>>

\* prisma.timeSlot.update({ where: { id }, data: { status: 'BOOKED', appointmentId } })
ConfirmUpdate(q) ==
    /\ q.pc = "confirm_update"
    /\ timeSlot' = [timeSlot EXCEPT ![q.slot].status = "BOOKED",
                                    ![q.slot].appointmentId = q.appt,
                                    ![q.slot].updatedAt = now]
    /\ Continue(q, [q EXCEPT !.pc = "confirm_delete"])
    /\ UNCHANGED <<now, slotLock, appointment, nextLockId, cleanup, rules, otpRun>>

\* prisma.slotLock.delete({ where: { id } }), deleteCache, io.emit, res.json;
\* deleting a row that is gone throws and is answered with status 500
ConfirmDelete(q) ==
    /\ q.pc = "confirm_delete"
    /\ \/ /\ \E l \in slotLock : l.id = q.lockId
          /\ slotLock' = {l \in slotLock : l.id # q.lockId}
          /\ Respond("confirm", q, "Ok")
       \/ /\ ~\E l \in slotLock : l.id = q.lockId
          /\ Respond("confirm", q, "Error")
          /\ UNCHANGED slotLock
    /\ UNCHANGED <<now, timeSlot, appointment, nextLockId, cleanup, rules, otpRun>>

----------------------------------------------------------------------------
(* POST /:id/cancel *)

\* A faulty authorisation check, against which C22 is tested: nobody is refused.
CancelDeniedToNobody(u, a) == FALSE

\* req.user.role !== 'ADMIN' && patientId !== userId && doctorId !== userId
CancelDenied(u, a) ==
    /\ Role(u) # "ADMIN"
    /\ appointment[a].patientId # u
    /\ appointment[a].doctorId # u

\* The request arrives: findUnique (include slot) and the three checks.
CancelFind(u, a) ==
    /\ Capacity
    /\ LET q == Request("cancel_find", u, "none", a) IN
         \/ /\ ~AppointmentExists(a)
            /\ Reject("cancel", q, "NotFound")
         \/ /\ AppointmentExists(a)
            /\ CancelDenied(u, a)
            /\ Reject("cancel", q, "Forbidden")
         \/ /\ AppointmentExists(a)
            /\ ~CancelDenied(u, a)
            /\ ~canCancelOrReschedule(timeSlot[appointment[a].slotId].date)
            /\ Reject("cancel", [q EXCEPT !.slot = appointment[a].slotId],
                      "TooLateToCancel")
         \/ /\ AppointmentExists(a)
            /\ ~CancelDenied(u, a)
            /\ canCancelOrReschedule(timeSlot[appointment[a].slotId].date)
            /\ Accept([q EXCEPT !.pc = "cancel_appt", !.slot = appointment[a].slotId])
    /\ UNCHANGED <<now, timeSlot, slotLock, appointment, nextLockId, cleanup, rules, otpRun>>

\* prisma.appointment.update: status CANCELLED, cancelledAt, cancelledBy, reason
CancelAppointment(q) ==
    /\ q.pc = "cancel_appt"
    /\ appointment' = [appointment EXCEPT ![q.appt].status = "CANCELLED",
                                          ![q.appt].cancelledAt = now,
                                          ![q.appt].cancelledBy = q.user,
                                          ![q.appt].cancellationReason = "reason"]
    /\ Continue(q, [q EXCEPT !.pc = "cancel_slot"])
    /\ UNCHANGED <<now, timeSlot, slotLock, nextLockId, cleanup, rules, otpRun>>

\* prisma.timeSlot.update({ data: { status: 'AVAILABLE', appointmentId: null } }),
\* deleteCache, res.json
CancelSlot(q) ==
    /\ q.pc = "cancel_slot"
    /\ timeSlot' = [timeSlot EXCEPT ![q.slot].status = "AVAILABLE",
                                    ![q.slot].appointmentId = Null,
                                    ![q.slot].updatedAt = now]
    /\ Respond("cancel", q, "Ok")
    /\ UNCHANGED <<now, slotLock, appointment, nextLockId, cleanup, rules, otpRun>>

----------------------------------------------------------------------------
(* generateOTP(length = 6), run statement by statement, and the lock and   *)
(* confirm handlers with the passcode it returns.                          *)

OtpLength == 6
OtpLengths == {0, 1, OtpLength}         \* the argument length
digits == <<"0", "1", "2", "3", "4", "5", "6", "7", "8", "9">>

\* Math.random(), in hundredths: a number from 0 up to but not 1
RandomScale == 100
Randoms == {0, 15, 25, 99}

\* Math.floor(Math.random() * n)
MathFloorRandomTimes(r, n) == (r * n) \div RandomScale

\* let otp = ''; i = 0.  The lock handler calls with the default length,
\* between its checks and its insert; any other caller, with any length.
generateOTPCall(length) ==
    /\ otpRun.pc = "idle"
    /\ slotLock = {}
    /\ IF \E q \in InFlight : q.pc \in {"lock_update", "lock_create"}
       THEN length = OtpLength
       ELSE inflight = EmptyBag
    /\ otpRun' = [pc |-> "loop", length |-> length, i |-> 0, otp |-> ""]
    /\ response' = NoResponse
    /\ UNCHANGED <<now, timeSlot, slotLock, appointment, nextLockId, inflight, cleanup, rules>>

\* A loop that stops one character early, against which C37 is tested.
generateOTPShort(i, length) == i + 1 < length

\* i < length
generateOTPGoesOn(i, length) == i < length

\* otp += digits[Math.floor(Math.random() * digits.length)]; i++
generateOTPLoop(r) ==
    /\ otpRun.pc = "loop"
    /\ generateOTPGoesOn(otpRun.i, otpRun.length)
    /\ otpRun' = [otpRun EXCEPT
          !.otp = @ \o digits[MathFloorRandomTimes(r, Len(digits)) + 1],
          !.i = @ + 1]
    /\ response' = NoResponse
    /\ UNCHANGED <<now, timeSlot, slotLock, appointment, nextLockId, inflight, cleanup, rules>>

\* return otp
generateOTPReturn ==
    /\ otpRun.pc = "loop"
    /\ ~generateOTPGoesOn(otpRun.i, otpRun.length)
    /\ otpRun' = [otpRun EXCEPT !.pc = "return"]
    /\ response' = NoResponse
    /\ UNCHANGED <<now, timeSlot, slotLock, appointment, nextLockId, inflight, cleanup, rules>>

\* a caller other than the lock handler has the value
generateOTPEnds ==
    /\ otpRun.pc = "return"
    /\ inflight = EmptyBag
    /\ otpRun' = OtpIdle
    /\ response' = [NoResponse EXCEPT !.op = "generateOTP", !.rq.otp = otpRun.otp,
                                      !.rq.until = otpRun.length]
    /\ UNCHANGED <<now, timeSlot, slotLock, appointment, nextLockId, inflight, cleanup, rules>>

\* prisma.slotLock.create with the otp that generateOTP() returned, and
\* res.json with data.otp, as in LockCreate
LockCreateGenerated(q) ==
    /\ q.pc = "lock_create"
    /\ otpRun.pc = "return"
    /\ \/ /\ SlotLockCreateAllowed(q.slot)
          /\ slotLock' = slotLock \cup
                {[id |-> nextLockId, slotId |-> q.slot, patientId |-> q.user,
                  lockedUntil |-> q.until, otp |-> otpRun.otp,
                  otpExpiresAt |-> q.until]}
          /\ nextLockId' = nextLockId + 1
          /\ RespondAs("lock", q, [q EXCEPT !.lockId = nextLockId, !.otp = otpRun.otp],
                       "Ok")
       \/ /\ ~SlotLockCreateAllowed(q.slot)
          /\ Respond("lock", q, "Error")
          /\ UNCHANGED <<slotLock, nextLockId>>
    /\ otpRun' = OtpIdle
    /\ UNCHANGED <<now, timeSlot, appointment, cleanup, rules>>

\* body('otp').isLength({ min: 6, max: 6 })
ConfirmOtpValid(otp) == Len(otp) = OtpLength

\* POST /slots/:slotId/confirm with its validator
ConfirmPost(p, s, otp) ==
    \/ /\ ConfirmOtpValid(otp)
       /\ ConfirmFind(p, s, otp)
    \/ /\ ~ConfirmOtpValid(otp)
       /\ Reject("confirm", [Request("confirm_find", p, s, Null) EXCEPT !.otp = otp],
                 "ValidationError")
       /\ UNCHANGED <<now, timeSlot, slotLock, appointment, nextLockId, cleanup, rules, otpRun>>

----------------------------------------------------------------------------
(* The collaborators of lock, confirm and cancel: the cache and the socket *)
(* server, called after the handler's last write.  Here the last write and *)
(* the calls that follow it are separate steps, and a call may fail.       *)

\* prisma.slotLock.create, as in LockCreate, with deleteCache still to come
LockCreateRow(q) ==
    /\ q.pc = "lock_create"
    /\ \/ /\ SlotLockCreateAllowed(q.slot)
          /\ \E otp \in OTPs :
               slotLock' = slotLock \cup
                  {[id |-> nextLockId, slotId |-> q.slot, patientId |-> q.user,
                    lockedUntil |-> q.until, otp |-> otp, otpExpiresAt |-> q.until]}
          /\ nextLockId' = nextLockId + 1
          /\ Continue(q, [q EXCEPT !.pc = "lock_notify", !.lockId = nextLockId])
       \/ /\ ~SlotLockCreateAllowed(q.slot)
          /\ Respond("lock", q, "Error")
          /\ UNCHANGED <<slotLock, nextLockId>>
    /\ UNCHANGED <<now, timeSlot, appointment, cleanup, rules, otpRun>>

\* prisma.slotLock.delete, as in ConfirmDelete, with deleteCache and io.emit
\* still to come
ConfirmDeleteRow(q) ==
    /\ q.pc = "confirm_delete"
    /\ \/ /\ \E l \in slotLock : l.id = q.lockId
          /\ slotLock' = {l \in slotLock : l.id # q.lockId}
          /\ Continue(q, [q EXCEPT !.pc = "confirm_notify"])
       \/ /\ ~\E l \in slotLock : l.id = q.lockId
          /\ Respond("confirm", q, "Error")
          /\ UNCHANGED slotLock
    /\ UNCHANGED <<now, timeSlot, appointment, nextLockId, cleanup, rules, otpRun>>

\* prisma.timeSlot.update, as in CancelSlot, with deleteCache still to come
CancelSlotRow(q) ==
    /\ q.pc = "cancel_slot"
    /\ timeSlot' = [timeSlot EXCEPT ![q.slot].status = "AVAILABLE",
                                    ![q.slot].appointmentId = Null,
                                    ![q.slot].updatedAt = now]
    /\ Continue(q, [q EXCEPT !.pc = "cancel_notify"])
    /\ UNCHANGED <<now, slotLock, appointment, nextLockId, cleanup, rules, otpRun>>

\* A handler that undoes its booking when a collaborator fails, against
\* which C30 is tested.
NotifyRollsBack(q, failed) ==
    /\ timeSlot' = IF failed /\ q.slot \in DOMAIN timeSlot
                   THEN [timeSlot EXCEPT ![q.slot].status = "AVAILABLE"]
                   ELSE timeSlot
    /\ slotLock' = IF failed THEN {l \in slotLock : l.slotId # q.slot} ELSE slotLock
    /\ UNCHANGED appointment

\* what a collaborator's failure does to the tables: deleteCache catches its
\* own error and logs it; the handler's catch logs and answers
NotifyWrites(q, failed) == UNCHANGED <<timeSlot, slotLock, appointment>>

\* await deleteCache(...); res.json(...)
LockNotify(q, cacheFails) ==
    /\ q.pc = "lock_notify"
    /\ NotifyWrites(q, cacheFails)
    /\ Respond("lock", q, "Ok")
    /\ UNCHANGED <<now, nextLockId, cleanup, rules, otpRun>>

\* await deleteCache(...); io.to(...).emit('slot-booked', ...); res.json(...);
\* an emit that throws is caught by the handler and answered with status 500
ConfirmNotify(q, cacheFails, emitFails) ==
    /\ q.pc = "confirm_notify"
    /\ NotifyWrites(q, cacheFails \/ emitFails)
    /\ Respond("confirm", q, IF emitFails THEN "Error" ELSE "Ok")
    /\ UNCHANGED <<now, nextLockId, cleanup, rules, otpRun>>

\* await deleteCache(...); res.json(...)
CancelNotify(q, cacheFails) ==
    /\ q.pc = "cancel_notify"
    /\ NotifyWrites(q, cacheFails)
    /\ Respond("cancel", q, "Ok")
    /\ UNCHANGED <<now, nextLockId, cleanup, rules, otpRun>>

----------------------------------------------------------------------------
(* POST /:id/complete *)

\* A faulty ownership check, against which C21 is tested: any doctor passes.
CompleteByAnyDoctor(d, a) == TRUE

\* appointment.doctorId !== doctorId is refused
CompleteByOwner(d, a) == appointment[a].doctorId = d

\* The request arrives: findUnique and the two checks.
CompleteFind(d, a, prescription, followUpDate) ==
    /\ Capacity
    /\ LET q == [Request("complete_find", d, "none", a)
                   EXCEPT !.prescription = prescription,
                          !.followUpDate = followUpDate] IN
         \/ /\ ~AppointmentExists(a)
            /\ Reject("complete", q, "NotFound")
         \/ /\ AppointmentExists(a)
            /\ ~CompleteByOwner(d, a)
            /\ Reject("complete", q, "Forbidden")
         \/ /\ AppointmentExists(a)
            /\ CompleteByOwner(d, a)
            /\ Accept([q EXCEPT !.pc = "complete_update"])
    /\ UNCHANGED <<now, timeSlot, slotLock, appointment, nextLockId, cleanup, rules, otpRun>>

\* prisma.appointment.update: status COMPLETED, prescription, followUpDate; res.json
CompleteUpdate(q) ==
    /\ q.pc = "complete_update"
    /\ appointment' = [appointment EXCEPT
          ![q.appt].status = "COMPLETED",
          \* prescription: undefined leaves the column as it is
          ![q.appt].prescription = IF q.prescription = "none" THEN @ ELSE q.prescription,
          \* followUpDate ? new Date(followUpDate) : null
          ![q.appt].followUpDate = q.followUpDate]
    /\ Respond("complete", q, "Ok")
    /\ UNCHANGED <<now, timeSlot, slotLock, nextLockId, cleanup, rules, otpRun>>

----------------------------------------------------------------------------
(* QueueService: the slot clean-up job, slotCleanupQueue.process *)

\* slotLock.deleteMany({ where: { expiresAt: { lt: new Date() } } })
\* (expiresAt: the row's expiry, lockedUntil = otpExpiresAt)
ExpiredLocks == {l \in slotLock : l.lockedUntil < now}

\* A release that does not ask how old the slot's last write is, against
\* which C36 is tested.
StaleSlotsAnyAge == {s \in DOMAIN timeSlot : timeSlot[s].status = "LOCKED"}

\* timeSlot.updateMany({ where: { status: 'LOCKED',
\*                                updatedAt: { lt: new Date(Date.now() - 5 * 60 * 1000) } } })
StaleSlots == {s \in DOMAIN timeSlot : /\ timeSlot[s].status = "LOCKED"
                             /\ timeSlot[s].updatedAt < now - LockWindow}

\* A run of the job starts: clean up expired slot locks.  slot_locks has no
\* column expiresAt: either the filter is taken to name the row's expiry and
\* the run goes on, or the statement throws and the job's catch ends the run.
CleanupLocks ==
    /\ cleanup.pc = "idle"
    /\ \/ /\ slotLock' = slotLock \ ExpiredLocks
          /\ cleanup' = [pc |-> "release", startedAt |-> now]
          /\ response' = NoResponse
       \/ /\ UNCHANGED <<slotLock, cleanup>>
          /\ response' = [NoResponse EXCEPT !.op = "cleanup", !.res = "Failed",
                                            !.rq.until = now]
    /\ UNCHANGED <<now, timeSlot, appointment, nextLockId, inflight, rules, otpRun>>

\* The timer set by the OTP job fires for patient p: deleteMany on the
\* patient's rows with the same filter on expiresAt, outside any try; the
\* statement deletes the patient's expired rows or throws.
OtpExpires(p) ==
    /\ \/ slotLock' = slotLock \ {l \in ExpiredLocks : l.patientId = p}
       \/ UNCHANGED slotLock
    /\ response' = NoResponse
    /\ UNCHANGED <<now, timeSlot, appointment, nextLockId, inflight, cleanup, rules, otpRun>>

\* The run ends: release expired slots.
CleanupSlots ==
    /\ cleanup.pc = "release"
    /\ timeSlot' = [s \in DOMAIN timeSlot |->
          IF s \in StaleSlots
          THEN [timeSlot[s] EXCEPT !.status = "AVAILABLE", !.updatedAt = now]
          ELSE timeSlot[s]]
    /\ cleanup' = CleanupIdle
    /\ response' = [NoResponse EXCEPT !.op = "cleanup", !.res = "Done",
                                      !.rq.until = cleanup.startedAt]
    /\ UNCHANGED <<now, slotLock, appointment, nextLockId, inflight, rules, otpRun>>

(* A second instance of the queue service running the same job.  Its run   *)
(* is kept with the requests in flight: started by "queue", between its    *)
(* two statements at "sweep_release", `until` holding the time it began.   *)

SweepInFlight == {q \in InFlight : q.pc = "sweep_release"}

\* The second instance's run begins: delete expired locks (or throw).
SweepLocks ==
    /\ Capacity
    /\ SweepInFlight = {}
    /\ LET q == [Request("sweep_locks", "queue", "none", Null) EXCEPT !.until = now] IN
         \/ /\ slotLock' = slotLock \ ExpiredLocks
            /\ Accept([q EXCEPT !.pc = "sweep_release"])
         \/ /\ UNCHANGED slotLock
            /\ Reject("cleanup", q, "Failed")
    /\ UNCHANGED <<now, timeSlot, appointment, nextLockId, cleanup, rules, otpRun>>

\* The second instance's run ends: release expired slots.
SweepSlots(q) ==
    /\ q.pc = "sweep_release"
    /\ timeSlot' = [s \in DOMAIN timeSlot |->
          IF s \in StaleSlots
          THEN [timeSlot[s] EXCEPT !.status = "AVAILABLE", !.updatedAt = now]
          ELSE timeSlot[s]]
    /\ Respond("cleanup", q, "Done")
    /\ UNCHANGED <<now, slotLock, appointment, nextLockId, cleanup, rules, otpRun>>

----------------------------------------------------------------------------
(* POST /api/doctors/:id/schedule *)

\* the rows of body.slots a doctor may send: date, startTime, endTime
SlotSpecs ==
    {[date |-> 1, startTime |-> 1, endTime |-> 2],
     [date |-> 1, startTime |-> 2, endTime |-> 3],
     [date |-> 1, startTime |-> 1, endTime |-> 3]}
ScheduleBodies == {<<x>> : x \in SlotSpecs} \cup {<<x, y>> : x, y \in SlotSpecs}

\* ids of the rows the program inserts into time_slots
NewSlotIds == {"n1", "n2", "n3"}

\* ids no row has and nothing refers to
FreeSlotIds ==
    {n \in NewSlotIds : /\ n \notin DOMAIN timeSlot
                        /\ \A l \in slotLock : l.slotId # n
                        /\ \A a \in 1 .. Len(appointment) : appointment[a].slotId # n
                        /\ \A q \in InFlight : q.slot # n}

\* the unique index time_slots_doctorId_date_startTime_key: a row may be
\* inserted for (doctorId, date, startTime) if no row has these three
TimeSlotCreateAllowed(d, date, startTime) ==
    ~\E s \in DOMAIN timeSlot : /\ timeSlot[s].doctorId = d
                                 /\ timeSlot[s].date = date
                                 /\ timeSlot[s].startTime = startTime

\* createMany({ data }): one INSERT of all the rows, refused as a whole if
\* one of them meets the unique index or two of them have the same key
CreateManyAllowed(d, data) ==
    /\ \A i \in 1 .. Len(data) : TimeSlotCreateAllowed(d, data[i].date, data[i].startTime)
    /\ \A i, j \in 1 .. Len(data) :
          (i # j /\ data[i].date = data[j].date) => data[i].startTime # data[j].startTime

\* the table after the insert of data, the new rows AVAILABLE
CreateMany(d, data) ==
    LET ids == CHOOSE f \in [1 .. Len(data) -> FreeSlotIds] :
                  \A i, j \in 1 .. Len(data) : i # j => f[i] # f[j]
        new == {ids[i] : i \in 1 .. Len(data)}
        at(n) == CHOOSE i \in 1 .. Len(data) : ids[i] = n
    IN [s \in DOMAIN timeSlot \cup new |->
          IF s \in DOMAIN timeSlot THEN timeSlot[s]
          ELSE [doctorId |-> d, date |-> data[at(s)].date,
                startTime |-> data[at(s)].startTime, endTime |-> data[at(s)].endTime,
                status |-> "AVAILABLE", appointmentId |-> Null, lockedUntil |-> Null,
                updatedAt |-> now]]

\* The request arrives: the owner check (body.slots is an array here).
ScheduleFind(u, id, slots) ==
    /\ Capacity
    /\ LET q == [Request("schedule_find", u, "none", Null) EXCEPT !.slots = slots] IN
         \/ /\ u # id
            /\ Reject("schedule", q, "Forbidden")
         \/ /\ u = id
            /\ Accept([q EXCEPT !.pc = "schedule_delete"])
    /\ UNCHANGED <<now, timeSlot, slotLock, appointment, nextLockId, cleanup, rules, otpRun>>

\* the rows deleteMany({ where: { doctorId: id, date: { in: dates } } }) removes
ScheduleCleared(q) ==
    {s \in DOMAIN timeSlot :
        /\ timeSlot[s].doctorId = q.user
        /\ \E i \in 1 .. Len(q.slots) : timeSlot[s].date = q.slots[i].date}

\* prisma.timeSlot.deleteMany; the foreign keys of slot_locks and appointments
\* are ON DELETE CASCADE
ScheduleDelete(q) ==
    /\ q.pc = "schedule_delete"
    /\ timeSlot' = [s \in DOMAIN timeSlot \ ScheduleCleared(q) |-> timeSlot[s]]
    /\ slotLock' = {l \in slotLock : l.slotId \notin ScheduleCleared(q)}
    /\ appointment' = [a \in 1 .. Len(appointment) |->
          IF appointment[a].slotId \in ScheduleCleared(q)
          THEN [appointment[a] EXCEPT !.status = "DELETED", !.slotId = "none"]
          ELSE appointment[a]]
    /\ Continue(q, [q EXCEPT !.pc = "schedule_create"])
    /\ UNCHANGED <<now, nextLockId, cleanup, rules, otpRun>>

\* prisma.timeSlot.createMany, getCache, res.json; a failed insert is caught
\* and answered with status 500
ScheduleCreate(q) ==
    /\ q.pc = "schedule_create"
    /\ \/ /\ CreateManyAllowed(q.user, q.slots)
          /\ Len(q.slots) <= Cardinality(FreeSlotIds)
          /\ timeSlot' = CreateMany(q.user, q.slots)
          /\ Respond("schedule", q, "Ok")
       \/ /\ ~CreateManyAllowed(q.user, q.slots)
          /\ Respond("schedule", q, "Error")
          /\ UNCHANGED timeSlot
    /\ UNCHANGED <<now, slotLock, appointment, nextLockId, cleanup, rules, otpRun>>

----------------------------------------------------------------------------
(* Recurring availability rules and their expansion.  The table is         *)
(* declared by the migration; the operations are those of the design,      *)
(* CreateRecurringRule and ExpandRule.                                     *)

WeekLength == 7
DayOfWeek(date) == date % WeekLength

RuleDays == {1, 3}                      \* dayOfWeek a doctor may name
RuleTimes == {<<1, 2>>, <<2, 3>>, <<1, 3>>, <<2, 2>>}   \* startTime, endTime
Horizons == {3, 8}                      \* horizonEnd: this week, next week

\* the unique index recurring_availability_rules_doctorId_dayOfWeek_startTime_e_key
RuleCreateAllowed(d, dayOfWeek, startTime, endTime) ==
    ~\E r \in rules : /\ r.doctorId = d
                       /\ r.dayOfWeek = dayOfWeek
                       /\ r.startTime = startTime
                       /\ r.endTime = endTime

\* A closed-interval overlap test, against which C27 is tested.
RuleOverlapsClosed(d, dayOfWeek, startTime, endTime) ==
    \E r \in rules : /\ r.isActive
                      /\ r.doctorId = d
                      /\ r.dayOfWeek = dayOfWeek
                      /\ startTime <= r.endTime
                      /\ r.startTime <= endTime

\* half-open overlap with an active rule of the doctor and the day
RuleOverlaps(d, dayOfWeek, startTime, endTime) ==
    \E r \in rules : /\ r.isActive
                      /\ r.doctorId = d
                      /\ r.dayOfWeek = dayOfWeek
                      /\ startTime < r.endTime
                      /\ r.startTime < endTime

\* CreateRecurringRule(doctorId, dayOfWeek, startTime, endTime, startDate, endDate?)
CreateRecurringRule(d, dayOfWeek, startTime, endTime, startDate, endDate) ==
    /\ LET r == [doctorId |-> d, dayOfWeek |-> dayOfWeek, startTime |-> startTime,
                 endTime |-> endTime, isActive |-> TRUE, startDate |-> startDate,
                 endDate |-> endDate]
           q == [Request("rule_create", d, "none", Null) EXCEPT !.rule = r]
       IN \/ /\ RuleOverlaps(d, dayOfWeek, startTime, endTime)
             /\ Reject("rule", q, "Overlap")
             /\ UNCHANGED rules
          \/ /\ ~RuleOverlaps(d, dayOfWeek, startTime, endTime)
             /\ RuleCreateAllowed(d, dayOfWeek, startTime, endTime)
             /\ rules' = rules \cup {r}
             /\ Reject("rule", q, "Ok")
          \/ /\ ~RuleOverlaps(d, dayOfWeek, startTime, endTime)
             /\ ~RuleCreateAllowed(d, dayOfWeek, startTime, endTime)
             /\ Reject("rule", q, "Error")
             /\ UNCHANGED rules
    /\ UNCHANGED <<now, timeSlot, slotLock, appointment, nextLockId, cleanup, otpRun>>

Max(a, b) == IF a >= b THEN a ELSE b
Min(a, b) == IF a <= b THEN a ELSE b

\* the dates of the rule between max(startDate, today) and
\* min(endDate or horizonEnd, horizonEnd) that fall on its day of the week
ExpandDates(r, horizonEnd) ==
    {date \in Max(r.startDate, now) ..
               Min(IF r.endDate = Null THEN horizonEnd ELSE r.endDate, horizonEnd) :
        DayOfWeek(date) = r.dayOfWeek}

\* the natural key of a slot row, and the keys the table holds
SlotKey(row) ==
    [doctorId |-> row.doctorId, date |-> row.date, startTime |-> row.startTime,
     endTime |-> row.endTime]
SlotKeys == {SlotKey(timeSlot[s]) : s \in DOMAIN timeSlot}

\* An expansion that skips nothing, against which C26 is tested.
ExpandSkipsNothing(key) == FALSE

\* duplicate-skipping on the natural key
ExpandSkips(key) == key \in SlotKeys

\* the candidate slots of the rule that are to be inserted, in date order
ExpandInserts(r, horizonEnd) ==
    LET dates == {date \in ExpandDates(r, horizonEnd) :
                     ~ExpandSkips([doctorId |-> r.doctorId, date |-> date,
                                   startTime |-> r.startTime, endTime |-> r.endTime])}
        order == CHOOSE f \in [1 .. Cardinality(dates) -> dates] :
                    \A i, j \in 1 .. Cardinality(dates) : i < j => f[i] < f[j]
    IN [i \in 1 .. Cardinality(dates) |->
          [date |-> order[i], startTime |-> r.startTime, endTime |-> r.endTime]]

\* ExpandRule(ruleId, horizonEnd): one insert of the candidates not skipped
ExpandRule(r, horizonEnd) ==
    /\ r \in rules
    /\ LET q == [Request("expand", r.doctorId, "none", Null)
                   EXCEPT !.rule = r, !.until = horizonEnd]
           data == ExpandInserts(r, horizonEnd)
       IN \/ /\ CreateManyAllowed(r.doctorId, data)
             /\ Len(data) <= Cardinality(FreeSlotIds)
             /\ timeSlot' = CreateMany(r.doctorId, data)
             /\ Reject("expand", [q EXCEPT !.slots = data], "Ok")
          \/ /\ ~CreateManyAllowed(r.doctorId, data)
             /\ Reject("expand", q, "Error")
             /\ UNCHANGED timeSlot
    /\ UNCHANGED <<now, slotLock, appointment, nextLockId, cleanup, rules, otpRun>>

----------------------------------------------------------------------------
(* The server as index.ts starts it: the routes and the clock.  The queue  *)
(* service is not constructed by startServer, so its job does not run.     *)

\* a request arrives at one of the routes
LockArrives == \E p \in Patients, s \in SlotIds : LockFind(p, s)
ConfirmArrives ==
    \E p \in Patients, s \in SlotIds \cap Slots, otp \in OTPs : ConfirmFind(p, s, otp)
CancelArrives == \E u \in Patients \cup {"admin"}, a \in ApptIds : CancelFind(u, a)
DoctorCancels == \E u \in Doctors, a \in ApptIds : CancelFind(u, a)
\* a complete call with neither optional field, and one with any body
CompleteArrives == \E d \in Doctors, a \in ApptIds : CompleteFind(d, a, "none", Null)
CompleteWithBody ==
    \E d \in Doctors, a \in ApptIds, prescription \in Prescriptions, followUpDate \in FollowUps :
        CompleteFind(d, a, prescription, followUpDate)

\* the calls of one patient and of the doctors, on any slot and on the
\* appointment of any slot
SlotApptIds == 1 .. Cardinality(Slots)
LockAnySlot == \E s \in Slots : LockFind("p1", s)
ConfirmAnySlot == \E s \in Slots, otp \in OTPs : ConfirmFind("p1", s, otp)
CancelAnySlot == \E a \in SlotApptIds : CancelFind("p1", a)
CompleteAnySlot == \E d \in Doctors, a \in SlotApptIds : CompleteFind(d, a, "none", Null)

\* the doctors' requests
ScheduleArrives ==
    \E u \in Doctors, slots \in ScheduleBodies : ScheduleFind(u, SlotDoctor, slots)
ScheduleSteps == \E q \in InFlight : ScheduleDelete(q) \/ ScheduleCreate(q)
RuleDoctorDays == {<<"d1", 1>>, <<"d1", 3>>, <<"d2", 1>>}
RuleArrives ==
    \E dd \in RuleDoctorDays, t \in RuleTimes :
        CreateRecurringRule(dd[1], dd[2], t[1], t[2], 0, Null)
ExpandArrives == \E r \in rules, horizonEnd \in Horizons : ExpandRule(r, horizonEnd)
\* the rules a doctor writes over the hours of the seeded slot
SlotRuleArrives ==
    \E dayOfWeek \in RuleDays, endTime \in {2, 3} :
        CreateRecurringRule(SlotDoctor, dayOfWeek, 1, endTime, 0, Null)

\* a request in flight runs its next statement
LockSteps == \E q \in InFlight : LockUpdate(q) \/ LockCreate(q)
ConfirmSteps == \E q \in InFlight : ConfirmCreate(q) \/ ConfirmUpdate(q) \/ ConfirmDelete(q)
CancelSteps == \E q \in InFlight : CancelAppointment(q) \/ CancelSlot(q)
CompleteSteps == \E q \in InFlight : CompleteUpdate(q)

Arrivals == LockArrives \/ ConfirmArrives \/ CancelArrives \/ CompleteArrives
Steps == LockSteps \/ ConfirmSteps \/ CancelSteps \/ CompleteSteps

Next == Tick \/ Arrivals \/ Steps

Spec == Init /\ [][Next]_vars

(* Bookings made one request at a time, and doctors completing             *)
(* appointments, with any body, beside them.                               *)

NextComplete ==
    \/ Tick
    \/ inflight = EmptyBag /\ (LockArrives \/ ConfirmArrives)
    \/ CompleteWithBody
    \/ LockSteps
    \/ ConfirmSteps
    \/ CompleteSteps

SpecComplete == Init /\ [][NextComplete]_vars

(* The four calls on two slots of the doctor, by one patient and the       *)
(* doctors, one request at a time.                                         *)

NextSlots ==
    \/ Tick
    \/ inflight = EmptyBag /\ (LockAnySlot \/ ConfirmAnySlot \/ CancelAnySlot \/ CompleteAnySlot)
    \/ Steps

SpecSlots == Init /\ [][NextSlots]_vars

(* One patient request at a time, locking or confirming, while two         *)
(* instances of the queue service run the clean-up job beside it.          *)

PatientInFlight == {q \in InFlight : q.user \in Patients}

NextSweepers ==
    \/ Tick
    \/ PatientInFlight = {} /\ (LockArrives \/ ConfirmArrives)
    \/ LockSteps
    \/ ConfirmSteps
    \/ CleanupLocks
    \/ CleanupSlots
    \/ SweepLocks
    \/ \E q \in InFlight : SweepSlots(q)

SpecSweepers == Init /\ [][NextSweepers]_vars

(* Doctors creating recurring rules.                                       *)

NextRules == RuleArrives

\* The doctor's schedule updates, concurrent with one another.
NextSchedule == Tick \/ ScheduleArrives \/ ScheduleSteps

SpecSchedule == Init /\ [][NextSchedule]_vars

\* Bookings and cancellations one request at a time, each handler's last
\* write and its collaborators taken as separate steps.
NotifySteps ==
    \E q \in InFlight :
       \/ LockUpdate(q) \/ LockCreateRow(q)
       \/ ConfirmCreate(q) \/ ConfirmUpdate(q) \/ ConfirmDeleteRow(q)
       \/ CancelAppointment(q) \/ CancelSlotRow(q)
       \/ \E cacheFails \in BOOLEAN : LockNotify(q, cacheFails) \/ CancelNotify(q, cacheFails)
       \/ \E cacheFails, emitFails \in BOOLEAN : ConfirmNotify(q, cacheFails, emitFails)

NextNotify ==
    \/ Tick
    \/ inflight = EmptyBag /\ (LockArrives \/ ConfirmArrives \/ CancelArrives)
    \/ NotifySteps

SpecNotify == Init /\ [][NextNotify]_vars

\* Bookings of the seeded slots and the doctor's schedule updates, one
\* request at a time, within one tick of the clock.
NextReschedule ==
    \/ inflight = EmptyBag /\ (LockArrives \/ ConfirmArrives \/ ScheduleArrives)
    \/ LockSteps
    \/ ConfirmSteps
    \/ ScheduleSteps

SpecReschedule == Init /\ [][NextReschedule]_vars

\* One patient locks and confirms with the passcode returned, or with one
\* that is too short, within one tick of the clock, generateOTP running
\* statement by statement.
ShortOtp == "12345"
NextOtp ==
    \/ \E length \in OtpLengths : generateOTPCall(length)
    \/ \E r \in Randoms : generateOTPLoop(r)
    \/ generateOTPReturn
    \/ generateOTPEnds
    \/ inflight = EmptyBag /\ slotLock = {} /\ otpRun = OtpIdle /\ LockFind("p1", "s1")
    \/ \E q \in InFlight : LockUpdate(q) \/ LockCreateGenerated(q)
    \/ /\ inflight = EmptyBag
       /\ \E otp \in {l.otp : l \in slotLock} \cup {ShortOtp} : ConfirmPost("p1", "s1", otp)
    \/ ConfirmSteps

SpecOtp == Init /\ [][NextOtp]_vars

\* Rules and their expansion beside the booking of the seeded slot, one
\* request at a time, within one tick of the clock.
NextExpand ==
    \/ inflight = EmptyBag /\ (LockArrives \/ ConfirmArrives)
    \/ LockSteps
    \/ ConfirmSteps
    \/ inflight = EmptyBag /\ (SlotRuleArrives \/ ExpandArrives)

SpecExpand == Init /\ [][NextExpand]_vars

SpecRules == Init /\ [][NextRules]_vars

(* Patients locking a slot, nothing else.                                  *)

ReleaseArrives == \E p \in Patients, s \in SlotIds : ReleaseLock(p, s)

\* Locking requests and requests to release a lock.
NextRelease == Tick \/ LockArrives \/ LockSteps \/ ReleaseArrives

SpecRelease == Init /\ [][NextRelease]_vars

NextLock == Tick \/ LockArrives \/ LockSteps

SpecLock == Init /\ [][NextLock]_vars

(* One patient request at a time, locking or confirming, each patient     *)
(* posting their own consultation mode, symptoms and notes with the lock   *)
(* request.                                                                *)

\* the body each patient posts to /slots/:slotId/lock
BookingDetails ==
    [p1 |-> [consultationMode |-> "ONLINE", symptoms |-> "fatigue", notes |-> "weeks"],
     p2 |-> [consultationMode |-> "IN_PERSON", symptoms |-> "", notes |-> ""]]

LockWithDetails ==
    \E p \in Patients, s \in SlotIds :
        LockFindBody(p, s, BookingDetails[p].consultationMode,
                     BookingDetails[p].symptoms, BookingDetails[p].notes)

NextDetails ==
    \/ Tick
    \/ inflight = EmptyBag /\ (LockWithDetails \/ ConfirmArrives)
    \/ LockSteps
    \/ ConfirmSteps

SpecDetails == Init /\ [][NextDetails]_vars

(* Patients locking and confirming, their requests interleaved, while the  *)
(* clean-up job and the OTP timers of the queue service run beside them.   *)

NextSweep ==
    \/ Tick
    \/ LockArrives \/ ConfirmArrives
    \/ LockSteps \/ ConfirmSteps
    \/ CleanupLocks
    \/ CleanupSlots
    \/ \E p \in Patients : OtpExpires(p)

SpecSweep == Init /\ [][NextSweep]_vars

(* One patient request at a time, locking or confirming, while the         *)
(* clean-up job of the queue service runs beside it.                       *)

NextCleanup ==
    \/ Tick
    \/ inflight = EmptyBag /\ (LockArrives \/ ConfirmArrives)
    \/ LockSteps
    \/ ConfirmSteps
    \/ CleanupLocks
    \/ CleanupSlots

SpecCleanup == Init /\ [][NextCleanup]_vars

(* One operation at a time: a request arrives, and a run of the clean-up   *)
(* job starts, only when nothing else is under way.  Here doctors cancel   *)
(* appointments too.                                                       *)

Quiet == inflight = EmptyBag /\ cleanup = CleanupIdle

NextSeq ==
    \/ Tick
    \/ Quiet /\ (Arrivals \/ DoctorCancels \/ CleanupLocks)
    \/ Steps
    \/ CleanupSlots

SpecSeq == Init /\ [][NextSeq]_vars

(* The server as started, with patients locking and confirming, where the  *)
(* clock keeps advancing and every request in flight runs to its response. *)

NextFair == Tick \/ LockArrives \/ LockSteps \/ ConfirmArrives \/ ConfirmSteps

SpecFair ==
    Init /\ [][NextFair]_vars /\ WF_vars(Tick) /\ WF_vars(LockSteps) /\ WF_vars(ConfirmSteps)

----------------------------------------------------------------------------
(* Outcomes *)

\* the outcomes a caller can tell apart: success and the 4xx answers
TypedOutcomes ==
    {"Ok", "Conflict", "NotFound", "InvalidOtpOrExpired", "PastSlot",
     "TooLateToCancel", "Forbidden"}

\* the last step answered a request of route op
Answered(op) == response.op = op

----------------------------------------------------------------------------
(* C1.  Mutual exclusion of Reserve.  Of the lock calls that run          *)
(* concurrently on the same AVAILABLE future slot, whatever the            *)
(* interleaving of their reads and writes, exactly one answers success     *)
(* and every other one answers Conflict; afterwards the slot is LOCKED and *)
(* has exactly one SlotLock row, which belongs to the winner.              *)
(* Checked under SpecLock, where nothing but lock calls runs.              *)

C1_ReserveMutualExclusion ==
    /\ nextLockId <= 2
    /\ (Answered("lock") /\ response.res \notin {"NotFound", "PastSlot"})
          => response.res \in {"Ok", "Conflict"}
    /\ (Answered("lock") /\ response.res = "Ok")
          => /\ timeSlot[response.rq.slot].status = "LOCKED"
             /\ \E l \in slotLock :
                   /\ LocksOf(response.rq.slot) = {l}
                   /\ l.id = response.rq.lockId
                   /\ l.patientId = response.rq.user

\* Two calls both read the slot AVAILABLE; the one whose SlotLock insert comes
\* second is answered with the generic failure, not with Conflict.
C1_RaceLoserGetsError ==
    /\ Answered("lock")
    /\ response.res = "Error"
    /\ \E l \in LocksOf(response.rq.slot) : l.patientId # response.rq.user

----------------------------------------------------------------------------
(* C2.  Expiry correctness of Confirm.  A confirm call by the patient who  *)
(* holds the lock, with the matching passcode, is accepted when it is      *)
(* invoked before the lock's expiry and is rejected as expired when it is  *)
(* invoked after it, whether or not the clean-up job has removed the       *)
(* SlotLock row; and a confirm call that is not accepted has created no    *)
(* appointment and has not set the slot to BOOKED.                         *)
(* Checked under SpecCleanup, where the job runs beside the request.       *)

\* the confirm call just answered found its lock: it was invoked with the
\* holder's passcode before the expiry
ConfirmFoundLock == Answered("confirm") /\ response.rq.lockId # Null

----------------------------------------------------------------------------
(* C3.  Round trip lock -> confirm.  After a successful lock call and a    *)
(* confirm call by the same patient with the correct passcode before the   *)
(* expiry, the slot is BOOKED, exactly one appointment with status         *)
(* CONFIRMED exists for the slot, and no SlotLock row of the slot remains. *)
(* Checked under SpecSeq, one operation at a time.                         *)

ConfirmedApptsOf(s) == {a \in ApptsOf(s) : appointment[a].status = "CONFIRMED"}

C3_RoundTrip ==
    ConfirmFoundLock =>
       /\ response.res = "Ok"
       /\ timeSlot[response.rq.slot].status = "BOOKED"
       /\ ConfirmedApptsOf(response.rq.slot) = {response.rq.appt}
       /\ LocksOf(response.rq.slot) = {}

\* The slot was booked and cancelled before; the second booking's confirm call
\* fails on the appointment the slot still has and leaves the slot LOCKED.
C3_RebookingFails ==
    /\ ConfirmFoundLock
    /\ response.res = "Error"
    /\ timeSlot[response.rq.slot].status = "LOCKED"
    /\ \E a \in ApptsOf(response.rq.slot) : appointment[a].status = "CANCELLED"

----------------------------------------------------------------------------
(* C4.  Effect of Cancel.  A successful cancel call leaves the appointment *)
(* CANCELLED with the actor, the reason and the time of cancellation       *)
(* recorded, the appointment's slot AVAILABLE with no appointment linked,  *)
(* and no SlotLock row for that slot.                                      *)
(* Checked under SpecSeq, one operation at a time.                         *)

C4_CancelEffect ==
    (Answered("cancel") /\ response.res = "Ok") =>
       /\ appointment[response.rq.appt].status = "CANCELLED"
       /\ appointment[response.rq.appt].cancelledBy = response.rq.user
       /\ appointment[response.rq.appt].cancellationReason # "none"
       /\ appointment[response.rq.appt].cancelledAt # Null
       /\ timeSlot[response.rq.slot].status = "AVAILABLE"
       /\ timeSlot[response.rq.slot].appointmentId = Null
       /\ LocksOf(response.rq.slot) = {}

\* A cancel call has succeeded and the slot, AVAILABLE again, has a SlotLock row.
C4_CancelLeavesLock ==
    /\ Answered("cancel")
    /\ response.res = "Ok"
    /\ timeSlot[response.rq.slot].status = "AVAILABLE"
    /\ LocksOf(response.rq.slot) # {}

----------------------------------------------------------------------------
(* C5.  Cancellation boundary.  A cancel call by a permitted actor goes    *)
(* through if and only if the current time is more than 24 hours before    *)
(* the slot's start, its date combined with its start time; otherwise it   *)
(* is answered TooLateToCancel and changes neither appointment nor slot.   *)
(* Checked under SpecSeq, one operation at a time.                         *)

C5_CancelBoundary ==
    [][\A u \in Users, a \in ApptIds :
          (CancelFind(u, a) /\ a <= Len(appointment) /\ ~CancelDenied(u, a)) =>
              IF SlotDateTime(appointment[a].slotId) - now > CancelWindow
              THEN /\ response'.res = "none"
                   /\ \E q \in BagToSet(inflight') : q.pc = "cancel_appt"
              ELSE /\ response'.res = "TooLateToCancel"
                   /\ UNCHANGED <<appointment, timeSlot>>]_vars

\* A cancel call is answered TooLateToCancel more than 24 hours before the
\* slot's start.
C5_RefusedBeforeBoundary ==
    /\ Answered("cancel")
    /\ response.res = "TooLateToCancel"
    /\ SlotDateTime(response.rq.slot) - now > CancelWindow

----------------------------------------------------------------------------
(* C6.  Sweeper safety.  When a lock's expiry has passed and no confirm    *)
(* call was accepted for it, one run of the clean-up job leaves the slot   *)
(* AVAILABLE and removes its SlotLock row; a second run right after it     *)
(* changes no slot and no lock.                                            *)
(* Checked under SpecSeq, where the job runs between the requests.         *)

\* the run of the job that just ended began at time t
CleanupRan(t) == Answered("cleanup") /\ response.rq.until = t

C6_SweeperSafety ==
    \A t \in 0 .. MaxTime : CleanupRan(t) =>
       /\ \A l \in slotLock : ~(l.lockedUntil < t)
       /\ \A s \in Slots :
             ~(timeSlot[s].status = "LOCKED" /\ timeSlot[s].lockedUntil < t)
       /\ t = now => (ExpiredLocks = {} /\ StaleSlots = {})

\* A run of the job has ended normally, has removed the expired SlotLock row
\* and has left its slot LOCKED.
C6_SlotLeftLocked ==
    \E s \in Slots :
       /\ Answered("cleanup")
       /\ response.res = "Done"
       /\ timeSlot[s].status = "LOCKED"
       /\ timeSlot[s].lockedUntil < response.rq.until
       /\ LocksOf(s) = {}

----------------------------------------------------------------------------
(* C7.  Eventual reclamation.  Every slot that becomes LOCKED eventually   *)
(* becomes AVAILABLE or BOOKED, even if no client calls confirm after the  *)
(* lock call, as long as time advances and what the program has started    *)
(* keeps running.                                                          *)
(* Checked under SpecFair: the server as index.ts starts it.               *)

C7_EventualReclamation ==
    \A s \in Slots :
       (timeSlot[s].status = "LOCKED") ~> (timeSlot[s].status \in {"AVAILABLE", "BOOKED"})

\* A slot is LOCKED, its lock has expired and no request is in flight.
C7_ExpiredLockRests ==
    \E s \in Slots :
       /\ timeSlot[s].status = "LOCKED"
       /\ \A l \in LocksOf(s) : l.lockedUntil < now
       /\ timeSlot[s].lockedUntil < now
       /\ inflight = EmptyBag

----------------------------------------------------------------------------
(* C8.  Confirm racing the sweeper.  A confirm call that runs while the    *)
(* clean-up job runs ends in one of two ways: it succeeds, and the slot is *)
(* BOOKED with one CONFIRMED appointment and no SlotLock; or it answers    *)
(* Conflict or Expired, and the slot is AVAILABLE, no appointment was      *)
(* created and no SlotLock remains.  Either way the slot has an            *)
(* appointment only if it is BOOKED, is BOOKED only with its appointment,  *)
(* and has a SlotLock only if it is LOCKED.                                *)
(* Checked under SpecCleanup, where the job runs beside the request, at    *)
(* the moment the call answers with no run of the job under way.           *)

----------------------------------------------------------------------------
(* C9.  Allowed slot transitions.  Every write of a slot's status, in      *)
(* every step of every execution, is one of AVAILABLE -> LOCKED (lock),    *)
(* LOCKED -> BOOKED (confirm), LOCKED -> AVAILABLE (clean-up) and          *)
(* BOOKED -> AVAILABLE (cancel): the lock handler writes LOCKED only over  *)
(* AVAILABLE, the confirm handler writes BOOKED only over LOCKED and the   *)
(* cancel handler writes AVAILABLE only over BOOKED.                       *)

C9_AllowedTransitions ==
    [][\A q \in InFlight :
          /\ LockUpdate(q) => timeSlot[q.slot].status = "AVAILABLE"
          /\ ConfirmUpdate(q) => timeSlot[q.slot].status = "LOCKED"
          /\ CancelSlot(q) => timeSlot[q.slot].status = "BOOKED"]_vars

\* A slot that is LOCKED or BOOKED while a lock call that read it AVAILABLE is
\* about to write LOCKED over it.
C9_StaleLockWrite ==
    \E q \in InFlight :
        /\ q.pc = "lock_update"
        /\ timeSlot[q.slot].status \in {"LOCKED", "BOOKED"}

----------------------------------------------------------------------------
(* C10.  Failures are typed.  In every interleaving of lock, confirm,      *)
(* cancel and complete calls, each call ends with success or with one of   *)
(* the typed outcomes (Conflict, NotFound, Expired / InvalidOtp, PastSlot, *)
(* TooLateToCancel, Forbidden); no call ends with the generic failure.     *)

C10_FailuresAreTyped ==
    response.op \in {"lock", "confirm", "cancel", "complete"}
        => response.res \in TypedOutcomes

\* A confirm call is answered with the generic failure.
C10_ConfirmGenericFailure == Answered("confirm") /\ response.res = "Error"

----------------------------------------------------------------------------
(* C11.  SlotLock exists only while LOCKED.  In every reachable state, if  *)
(* a SlotLock row exists for a slot, that slot's status is LOCKED.         *)
(* Checked under SpecSeq, one operation at a time, the job included.       *)

C11_LockOnlyWhileLocked ==
    \A s \in Slots : LocksOf(s) # {} => timeSlot[s].status = "LOCKED"

\* Nothing is under way and a slot that is not LOCKED has a SlotLock row.
C11_LockRowRests ==
    /\ Quiet
    /\ \E s \in Slots : LocksOf(s) # {} /\ timeSlot[s].status # "LOCKED"

----------------------------------------------------------------------------
(* C12.  No orphaned LOCKED slot.  If persisting the SlotLock row fails    *)
(* after the slot was set to LOCKED, the slot is returned to AVAILABLE;    *)
(* and whenever no lock call is in progress on a slot, a LOCKED slot has   *)
(* a SlotLock row.                                                         *)
(* Checked under Spec, the server as started.                              *)

\* a lock call on slot s is between its findUnique and its response
LockInProgress(s) ==
    \E q \in InFlight : q.slot = s /\ q.pc \in {"lock_update", "lock_create"}

C12_NoOrphanedLock ==
    /\ (Answered("lock") /\ response.res = "Error")
          => timeSlot[response.rq.slot].status = "AVAILABLE"
    /\ \A s \in Slots :
          (timeSlot[s].status = "LOCKED" /\ ~LockInProgress(s)) => LocksOf(s) # {}

\* Nothing is under way and a LOCKED slot has no SlotLock row.
C12_OrphanAtRest ==
    /\ Quiet
    /\ \E s \in Slots : timeSlot[s].status = "LOCKED" /\ LocksOf(s) = {}

----------------------------------------------------------------------------
(* C13.  BOOKED slot shape.  In every reachable state, a slot whose status *)
(* is BOOKED has a non-null appointment id that refers to an existing      *)
(* appointment for that slot, and has no lock-expiry timestamp             *)
(* (lockedUntil is null).                                                  *)
(* Checked under SpecSeq, one operation at a time.                         *)

C13_BookedShape ==
    \A s \in Slots : timeSlot[s].status = "BOOKED" =>
       /\ timeSlot[s].appointmentId # Null
       /\ timeSlot[s].appointmentId \in ApptsOf(s)
       /\ timeSlot[s].lockedUntil = Null

\* A confirm call has succeeded and the slot it booked still carries the
\* lock-expiry the lock call wrote.
C13_BookedKeepsExpiry ==
    /\ Answered("confirm")
    /\ response.res = "Ok"
    /\ timeSlot[response.rq.slot].status = "BOOKED"
    /\ timeSlot[response.rq.slot].lockedUntil = response.rq.until

----------------------------------------------------------------------------
(* C14.  Appointment / slot agreement.  For every appointment, its slot    *)
(* has status BOOKED if and only if the appointment's status is CONFIRMED  *)
(* or COMPLETED, after any sequence of lock, confirm, cancel and complete  *)
(* calls, a complete or cancel call on an appointment that is already      *)
(* CANCELLED or COMPLETED included.                                        *)
(* Checked under SpecSeq, one operation at a time, in the states where     *)
(* no operation is under way.                                              *)

C14_AppointmentSlotAgreement ==
    Quiet => \A a \in 1 .. Len(appointment) :
       (timeSlot[appointment[a].slotId].status = "BOOKED")
          <=> (appointment[a].status \in {"CONFIRMED", "COMPLETED"})

\* A complete call on a cancelled appointment has succeeded: the appointment
\* is COMPLETED and its slot is AVAILABLE.
C14_CompletedAfterCancel ==
    /\ Answered("complete")
    /\ response.res = "Ok"
    /\ appointment[response.rq.appt].status = "COMPLETED"
    /\ appointment[response.rq.appt].cancelledBy # "none"
    /\ timeSlot[appointment[response.rq.appt].slotId].status = "AVAILABLE"

----------------------------------------------------------------------------
(* C15.  Confirm is atomic.  Its three effects (slot LOCKED -> BOOKED,     *)
(* appointment created, SlotLock deleted) are applied as one unit: in no   *)
(* state that a concurrent operation can read, and after no failure of     *)
(* one of the writes, have only some of the three been applied.  So a      *)
(* slot that has a CONFIRMED appointment is BOOKED with that appointment   *)
(* and without a SlotLock, and a confirm call that does not succeed has    *)
(* created no appointment.                                                 *)
(* Checked under Spec, the server as started.                              *)

C15_ConfirmAtomic ==
    /\ \A s \in Slots :
          (\E a \in ApptsOf(s) : appointment[a].status = "CONFIRMED") =>
             /\ timeSlot[s].status = "BOOKED"
             /\ timeSlot[s].appointmentId \in ApptsOf(s)
             /\ LocksOf(s) = {}
    /\ (Answered("confirm") /\ response.res # "Ok") => response.rq.appt = Null

\* A lock call reads the slot, and is refused, while a confirm call has
\* created the appointment and not yet set the slot to BOOKED.
C15_PartialStateRead ==
    /\ Answered("lock")
    /\ response.res = "Conflict"
    /\ \E q \in InFlight :
          /\ q.pc = "confirm_update"
          /\ q.slot = response.rq.slot
          /\ timeSlot[q.slot].status = "LOCKED"
          /\ q.appt \in ApptsOf(q.slot)

----------------------------------------------------------------------------
(* C16.  InvalidOtp.  A confirm call fails with the invalid-passcode       *)
(* answer, and changes no slot, SlotLock or appointment, when no SlotLock  *)
(* exists for the slot, when the caller is not the patient who holds the   *)
(* lock, or when the supplied passcode differs from the lock's passcode:   *)
(* that is, whenever no SlotLock row has the call's slot, caller and       *)
(* passcode together.                                                      *)
C16_InvalidOtp ==
    [][\A p \in Patients, s \in Slots, otp \in OTPs :
          (/\ ConfirmFind(p, s, otp)
           /\ ~\E l \in slotLock : l.slotId = s /\ l.patientId = p /\ l.otp = otp)
          => /\ response'.op = "confirm"
             /\ response'.res = "InvalidOtpOrExpired"
             /\ response'.rq.user = p
             /\ inflight' = inflight
             /\ UNCHANGED <<timeSlot, slotLock, appointment>>]_vars

\* a call by the lock's holder, before the expiry, with another passcode was refused
C16_WrongPasscodeRefused ==
    /\ Answered("confirm")
    /\ response.res = "InvalidOtpOrExpired"
    /\ \E l \in slotLock :
          /\ l.slotId = response.rq.slot
          /\ l.patientId = response.rq.user
          /\ l.otpExpiresAt > now
          /\ l.otp # response.rq.otp

----------------------------------------------------------------------------
(* C17.  The passcode is single-use.  After a confirm call has succeeded   *)
(* with a passcode, every later confirm call for that slot with the same   *)
(* passcode fails; and when two confirm calls with the same valid passcode *)
(* run concurrently, exactly one succeeds and exactly one appointment is   *)
(* created for the slot.                                                   *)
(* Appointment rows are never deleted, so this is: in every state a slot   *)
(* has at most one appointment and at most one confirm call past its       *)
(* create, which carries that appointment; a confirm call that reaches the *)
(* slot's existing appointment fails; and a confirm call succeeds exactly  *)
(* when it is the one that created the slot's only appointment.            *)
(* Checked under Spec, all interleavings of the requests.                  *)

\* the confirm calls in flight that have created their appointment
ConfirmCreated(s) ==
    {q \in InFlight : q.slot = s /\ q.pc \in {"confirm_update", "confirm_delete"}}

C17_PasscodeSingleUse ==
    /\ [](\A s \in Slots :
            /\ Cardinality(ApptsOf(s)) <= 1
            /\ Cardinality(ConfirmCreated(s)) <= 1
            /\ \A q \in ConfirmCreated(s) : inflight[q] = 1 /\ ApptsOf(s) = {q.appt}
            /\ \A q \in InFlight : q.pc = "confirm_create" => q.appt = Null)
    /\ [][\A q \in InFlight :
            /\ (ConfirmCreate(q) /\ ApptsOf(q.slot) # {})
                  => /\ response'.op = "confirm"
                     /\ response'.res # "Ok"
                     /\ appointment' = appointment
            /\ ConfirmDelete(q)
                  => /\ response'.res = "Ok"
                     /\ ApptsOf(q.slot) = {q.appt}
            /\ (response'.op = "confirm" /\ response'.res = "Ok" /\ inflight' # inflight)
                  => response'.rq.pc = "confirm_delete"]_vars

\* Of two confirm calls that found the same lock with the same passcode, one
\* has created the appointment and the other has just failed.
C17_TwinConfirmLoses ==
    /\ Answered("confirm")
    /\ response.res # "Ok"
    /\ response.rq.lockId # Null
    /\ \E q \in ConfirmCreated(response.rq.slot) :
          /\ q.lockId = response.rq.lockId
          /\ q.otp = response.rq.otp
          /\ q.user = response.rq.user

----------------------------------------------------------------------------
(* C18.  Reserve on an unavailable slot.  A lock call whose slot is not    *)
(* AVAILABLE at the moment its status write is applied (it is LOCKED,      *)
(* BOOKED or otherwise unavailable) answers Conflict and mutates nothing:  *)
(* the slot's status and lock expiry and any existing SlotLock row are     *)
(* unchanged.                                                              *)
(* Checked under SpecLock, the lock calls in all their interleavings.      *)

C18_ReserveUnavailable ==
    [][\A q \in InFlight :
          (LockUpdate(q) /\ timeSlot[q.slot].status # "AVAILABLE")
             => /\ response'.op = "lock"
                /\ response'.res = "Conflict"
                /\ UNCHANGED <<timeSlot, slotLock>>]_vars

\* A lock call that wrote over a LOCKED slot has answered with the generic
\* failure, and the slot's expiry is no longer that of its SlotLock row.
C18_ExpiryOverwritten ==
    /\ Answered("lock")
    /\ response.res = "Error"
    /\ timeSlot[response.rq.slot].lockedUntil = response.rq.until
    /\ \E l \in LocksOf(response.rq.slot) :
          l.lockedUntil # timeSlot[response.rq.slot].lockedUntil

----------------------------------------------------------------------------
(* C19.  PastSlot.  A lock call on an AVAILABLE slot whose start time      *)
(* (date plus start time) is not after the current time, when the handler  *)
(* reads the slot, is rejected with PastSlot, and the slot stays AVAILABLE *)
(* with no SlotLock created.                                               *)
(* Checked under SpecLock.                                                 *)

----------------------------------------------------------------------------
(* C20.  Uniqueness per slot.  In every reachable state there is at most   *)
(* one SlotLock row per slot and at most one Appointment row per slot,     *)
(* whatever the interleaving of concurrent lock and confirm calls.         *)
(* Checked under Spec, all interleavings of the requests.                  *)

C20_UniquePerSlot ==
    \A s \in Slots :
        /\ \A l1, l2 \in LocksOf(s) : l1 = l2
        /\ \A a1, a2 \in ApptsOf(s) : a1 = a2

\* The slot has a SlotLock row of one patient, and another patient's lock
\* call, which read the slot AVAILABLE, is about to insert a second one.
C20_SecondInsertPending ==
    \E q \in InFlight :
        /\ q.pc = "lock_create"
        /\ \E l \in LocksOf(q.slot) : l.patientId # q.user

----------------------------------------------------------------------------
(* C21.  Complete.  When called by the doctor who owns the appointment, a  *)
(* complete call sets the appointment's status to COMPLETED, with the      *)
(* given prescription and follow-up date, and leaves the slot's status,    *)
(* appointment link and lock state unchanged; when called by any other     *)
(* doctor it fails with Forbidden and changes nothing.                     *)
(* Checked under SpecComplete.                                             *)

C21_Complete ==
    [][/\ \A d \in Doctors, a \in ApptIds, prescription \in Prescriptions,
             followUpDate \in FollowUps :
             (/\ CompleteFind(d, a, prescription, followUpDate)
              /\ a <= Len(appointment)
              /\ appointment[a].doctorId # d)
             => /\ response'.op = "complete"
                /\ response'.res = "Forbidden"
                /\ response'.rq.user = d
                /\ inflight' = inflight
                /\ UNCHANGED <<timeSlot, slotLock, appointment>>
       /\ \A q \in InFlight :
             CompleteUpdate(q)
             => /\ q.user = appointment[q.appt].doctorId
                /\ response'.res = "Ok"
                /\ appointment'[q.appt].status = "COMPLETED"
                /\ q.prescription # "none"
                      => appointment'[q.appt].prescription = q.prescription
                /\ appointment'[q.appt].followUpDate = q.followUpDate
                /\ \A f \in {"patientId", "doctorId", "slotId", "cancelledAt",
                             "cancelledBy", "cancellationReason"} :
                      appointment'[q.appt][f] = appointment[q.appt][f]
                /\ \A a \in 1 .. Len(appointment) :
                      a # q.appt => appointment'[a] = appointment[a]
                /\ Len(appointment') = Len(appointment)
                /\ UNCHANGED <<timeSlot, slotLock>>]_vars

\* The owning doctor's complete call has succeeded on a booked slot, with the
\* prescription and the follow-up date it gave.
C21_CompletedWithBody ==
    /\ Answered("complete")
    /\ response.res = "Ok"
    /\ response.rq.prescription # "none"
    /\ response.rq.followUpDate # Null
    /\ appointment[response.rq.appt].status = "COMPLETED"
    /\ appointment[response.rq.appt].prescription = response.rq.prescription
    /\ appointment[response.rq.appt].followUpDate = response.rq.followUpDate
    /\ timeSlot[appointment[response.rq.appt].slotId].status = "BOOKED"

----------------------------------------------------------------------------
(* C22.  Cancel authorisation.  A cancel call by an actor who is neither   *)
(* the appointment's patient, nor its doctor, nor an admin fails with      *)
(* Forbidden, and a cancel call on an appointment id that does not exist   *)
(* fails with NotFound; in both cases no appointment and no slot is        *)
(* changed.                                                                *)
(* Checked under SpecSeq, where patients, doctors and the admin cancel.    *)

C22_CancelAuthorisation ==
    [][\A u \in Users, a \in ApptIds :
          /\ (CancelFind(u, a) /\ a > Len(appointment))
                => /\ response'.op = "cancel"
                   /\ response'.res = "NotFound"
                   /\ inflight' = inflight
                   /\ UNCHANGED <<timeSlot, slotLock, appointment>>
          /\ (/\ CancelFind(u, a)
              /\ a <= Len(appointment)
              /\ Role(u) # "ADMIN"
              /\ u # appointment[a].patientId
              /\ u # appointment[a].doctorId)
                => /\ response'.op = "cancel"
                   /\ response'.res = "Forbidden"
                   /\ response'.rq.user = u
                   /\ inflight' = inflight
                   /\ UNCHANGED <<timeSlot, slotLock, appointment>>]_vars

\* A patient who did not book the appointment was refused, and the appointment
\* is still CONFIRMED on its BOOKED slot.
C22_StrangerRefused ==
    /\ Answered("cancel")
    /\ response.res = "Forbidden"
    /\ response.rq.user \in Patients
    /\ appointment[response.rq.appt].patientId # response.rq.user
    /\ appointment[response.rq.appt].status = "CONFIRMED"
    /\ timeSlot[appointment[response.rq.appt].slotId].status = "BOOKED"

----------------------------------------------------------------------------
(* C23.  Independence of slots.  A lock, confirm, cancel or complete call  *)
(* applied to slot A (or to A's appointment) leaves the status, the lock   *)
(* expiry, the SlotLock row and the appointment of every other slot B      *)
(* unchanged, and the outcome of a call on A does not depend on the state  *)
(* of B: it is fixed by the clock and by A's own slot row, SlotLock row    *)
(* and appointment.                                                        *)
(* Checked under SpecSlots, with two slots.                                *)

\* the rows of slot b are after the step what they were before it
SlotUntouched(b) ==
    /\ timeSlot'[b] = timeSlot[b]
    /\ {l \in slotLock' : l.slotId = b} = {l \in slotLock : l.slotId = b}
    /\ {<<a, appointment'[a]>> : a \in {x \in 1 .. Len(appointment') : appointment'[x].slotId = b}}
          = {<<a, appointment[a]>> : a \in {x \in 1 .. Len(appointment) : appointment[x].slotId = b}}

\* the step has answered res / has let the request go on
Outcome(res) == response'.res = res /\ inflight' = inflight
GoesOn == response' = NoResponse /\ inflight' # inflight

C23_SlotIndependence ==
    [][/\ \A q \in InFlight :
             /\ (\/ LockUpdate(q) \/ LockCreate(q)
                 \/ ConfirmCreate(q) \/ ConfirmUpdate(q) \/ ConfirmDelete(q)
                 \/ CancelAppointment(q) \/ CancelSlot(q))
                   => \A b \in Slots \ {q.slot} : SlotUntouched(b)
             /\ CompleteUpdate(q)
                   => \A b \in Slots \ {appointment[q.appt].slotId} : SlotUntouched(b)
             /\ LockCreate(q)
                   => (response'.res = "Ok" <=> ~\E l \in slotLock : l.slotId = q.slot)
             /\ ConfirmCreate(q)
                   => (response'.res = "Error"
                          <=> \E a \in 1 .. Len(appointment) : appointment[a].slotId = q.slot)
             /\ ConfirmDelete(q)
                   => (response'.res = "Ok"
                          <=> \E l \in slotLock : l.slotId = q.slot /\ l.id = q.lockId)
       /\ \A p \in {"p1"}, s \in Slots :
             LockFind(p, s)
             => /\ \A b \in Slots : SlotUntouched(b)
                /\ IF timeSlot[s].status # "AVAILABLE" THEN Outcome("Conflict")
                   ELSE IF SlotDateTime(s) <= now THEN Outcome("PastSlot")
                   ELSE GoesOn
       /\ \A p \in {"p1"}, s \in Slots, otp \in OTPs :
             ConfirmFind(p, s, otp)
             => /\ \A b \in Slots : SlotUntouched(b)
                /\ IF ~\E l \in slotLock : /\ l.slotId = s /\ l.patientId = p
                                           /\ l.otp = otp /\ l.otpExpiresAt > now
                      THEN Outcome("InvalidOtpOrExpired")
                   ELSE IF timeSlot[s].status # "LOCKED" THEN Outcome("Conflict")
                   ELSE GoesOn
       /\ \A u \in {"p1"}, a \in SlotApptIds :
             (CancelFind(u, a) /\ a <= Len(appointment))
             => /\ \A b \in Slots : SlotUntouched(b)
                /\ IF u # appointment[a].patientId THEN Outcome("Forbidden")
                   ELSE IF timeSlot[appointment[a].slotId].date - now <= CancelWindow
                      THEN Outcome("TooLateToCancel")
                   ELSE GoesOn
       /\ \A d \in Doctors, a \in SlotApptIds :
             (CompleteFind(d, a, "none", Null) /\ a <= Len(appointment))
             => /\ \A b \in Slots : SlotUntouched(b)
                /\ IF d # appointment[a].doctorId THEN Outcome("Forbidden") ELSE GoesOn]_vars

\* Slot s2 is BOOKED with its appointment while a lock call on s1, which was
\* AVAILABLE, has just been answered with success.
C23_OtherSlotBooked ==
    /\ Answered("lock")
    /\ response.res = "Ok"
    /\ response.rq.slot = "s1"
    /\ timeSlot["s2"].status = "BOOKED"
    /\ ApptsOf("s2") # {}
    /\ LocksOf("s2") = {}
    /\ LocksOf("s1") # {}

----------------------------------------------------------------------------
(* C24.  The lock window is fixed.  For every SlotLock, its lock expiry    *)
(* equals its creation time plus exactly the lock window (5 minutes), its  *)
(* passcode expiry equals its lock expiry, and no operation, a second lock *)
(* call on the same slot included, ever changes the expiry of an existing  *)
(* lock or of the LOCKED slot.                                             *)
(* Checked under SpecLock; a row's creation time is the clock at its       *)
(* insert (createdAt DEFAULT CURRENT_TIMESTAMP).                           *)

C24_LockWindowFixed ==
    [][/\ \A l \in slotLock' \ slotLock :
             /\ l.lockedUntil = now + LockWindow
             /\ l.otpExpiresAt = l.lockedUntil
       /\ \A l \in slotLock, l2 \in slotLock' :
             l.id = l2.id => /\ l2.lockedUntil = l.lockedUntil
                             /\ l2.otpExpiresAt = l.otpExpiresAt
       /\ \A s \in Slots :
             (timeSlot[s].status = "LOCKED" /\ timeSlot'[s].status = "LOCKED")
                => timeSlot'[s].lockedUntil = timeSlot[s].lockedUntil]_vars

\* No call is under way; the slot is LOCKED and expires later than the
\* SlotLock row it has: a second lock call has extended the slot's expiry.
C24_SlotExpiryExtended ==
    /\ inflight = EmptyBag
    /\ \E s \in Slots :
          /\ timeSlot[s].status = "LOCKED"
          /\ \E l \in LocksOf(s) : timeSlot[s].lockedUntil > l.lockedUntil

----------------------------------------------------------------------------
(* C25.  Concurrent sweepers are harmless.  Two runs of the clean-up job   *)
(* executing concurrently, in any interleaving of their statements with    *)
(* each other and with lock and confirm calls, over the same expired lock  *)
(* end in the same state as a single run, with the slot AVAILABLE and the  *)
(* SlotLock removed; and a SlotLock row is deleted only after its slot's   *)
(* LOCKED -> AVAILABLE transition has succeeded.                           *)
(* Checked under SpecSweepers, with two instances of the job.              *)

\* no run of the job is under way in either instance
SweepersIdle == cleanup = CleanupIdle /\ SweepInFlight = {}

C25_ConcurrentSweepers ==
    /\ [](\A t \in 0 .. MaxTime :
            (CleanupRan(t) /\ response.res = "Done" /\ SweepersIdle /\ inflight = EmptyBag)
               => /\ \A l \in slotLock : ~(l.lockedUntil < t)
                  /\ \A s \in Slots :
                        ~(timeSlot[s].status = "LOCKED" /\ timeSlot[s].lockedUntil < t))
    /\ [][(CleanupLocks \/ SweepLocks)
             => \A l \in slotLock \ slotLock' :
                   timeSlot[l.slotId].status = "AVAILABLE"]_vars

\* Both instances are between their two statements: the expired SlotLock row
\* is deleted and its slot is still LOCKED.
C25_BothBetweenStatements ==
    /\ cleanup.pc = "release"
    /\ SweepInFlight # {}
    /\ PatientInFlight = {}
    /\ nextLockId > 1
    /\ \E s \in Slots :
          /\ timeSlot[s].status = "LOCKED"
          /\ timeSlot[s].lockedUntil < now
          /\ LocksOf(s) = {}

----------------------------------------------------------------------------
(* C27.  Overlap rejection of recurring rules.  CreateRecurringRule for a  *)
(* doctor and a day of the week is rejected with Overlap exactly when an   *)
(* existing active rule of the same doctor and day satisfies               *)
(* new.start < existing.end and existing.start < new.end; a rule that only *)
(* touches an existing one (new.start = existing.end) is accepted.  Hence  *)
(* the active rules of one doctor and day never overlap.                   *)
(* Checked under SpecRules.                                                *)

C27_OverlapRejection ==
    /\ [](\A r1, r2 \in rules :
            (/\ r1 # r2 /\ r1.isActive /\ r2.isActive
             /\ r1.doctorId = r2.doctorId /\ r1.dayOfWeek = r2.dayOfWeek)
               => ~(r1.startTime < r2.endTime /\ r2.startTime < r1.endTime))
    /\ [][\A d \in Doctors, dayOfWeek \in RuleDays, t \in RuleTimes :
            CreateRecurringRule(d, dayOfWeek, t[1], t[2], 0, Null)
            => LET same == {r \in rules : /\ r.isActive /\ r.doctorId = d
                                          /\ r.dayOfWeek = dayOfWeek}
                   new == response'.rq.rule
               IN /\ response'.res = "Overlap"
                        <=> \E r \in same : t[1] < r.endTime /\ r.startTime < t[2]
                  /\ response'.res = "Overlap" => rules' = rules
                  /\ (/\ t[1] < t[2]
                      /\ \E r \in same : t[1] = r.endTime
                      /\ ~\E r \in same : t[1] < r.endTime /\ r.startTime < t[2])
                        => /\ response'.res = "Ok"
                           /\ rules' = rules \cup {new}
                           /\ new \notin rules]_vars

\* A rule that starts where another rule of the doctor and the day ends has
\* been accepted.
C27_TouchingAccepted ==
    /\ Answered("rule")
    /\ response.res = "Ok"
    /\ response.rq.rule \in rules
    /\ \E r \in rules :
          /\ r.doctorId = response.rq.rule.doctorId
          /\ r.dayOfWeek = response.rq.rule.dayOfWeek
          /\ r.endTime = response.rq.rule.startTime
          /\ r.startTime < r.endTime
          /\ response.rq.rule.startTime < response.rq.rule.endTime

----------------------------------------------------------------------------
(* C26.  Idempotent expansion.  Running Expand twice with the same rule    *)
(* and horizon yields the same set of slot keys (doctor, date, startTime,  *)
(* endTime) as running it once, with no duplicates: the table never holds  *)
(* two rows with one key, a run that answers Ok leaves every candidate key *)
(* in the table, and a run that directly repeats a run that answered Ok    *)
(* inserts nothing.  No run alters a row that exists, whatever its status, *)
(* nor a lock or an appointment.                                           *)
(* Checked under SpecExpand.                                               *)

C26_IdempotentExpansion ==
    /\ [](\A s, t \in DOMAIN timeSlot :
            SlotKey(timeSlot[s]) = SlotKey(timeSlot[t]) => s = t)
    /\ [][\A r \in rules, horizonEnd \in Horizons :
            ExpandRule(r, horizonEnd)
            => LET keys == {[doctorId |-> r.doctorId, date |-> date,
                             startTime |-> r.startTime, endTime |-> r.endTime] :
                               date \in ExpandDates(r, horizonEnd)}
                   keysAfter == {[doctorId |-> timeSlot'[s].doctorId,
                                  date |-> timeSlot'[s].date,
                                  startTime |-> timeSlot'[s].startTime,
                                  endTime |-> timeSlot'[s].endTime] :
                                    s \in DOMAIN timeSlot'}
               IN /\ \A s \in DOMAIN timeSlot :
                        s \in DOMAIN timeSlot' /\ timeSlot'[s] = timeSlot[s]
                  /\ slotLock' = slotLock
                  /\ appointment' = appointment
                  /\ response'.res = "Ok" => keysAfter = SlotKeys \cup keys
                  /\ response'.res # "Ok" => timeSlot' = timeSlot
                  /\ (/\ response.op = "expand"
                      /\ response.res = "Ok"
                      /\ response.rq.rule = r
                      /\ response.rq.until = horizonEnd)
                        => /\ timeSlot' = timeSlot
                           /\ response'.res = "Ok"
                           /\ response'.rq.slots = <<>>]_vars

\* A run over two weeks has inserted nothing: next week's slot of the rule
\* was materialized by an earlier run, and this week's slot of the rule is
\* the seeded one, which is LOCKED or BOOKED.
C26_RepeatRunOverHeldSlot ==
    /\ Answered("expand")
    /\ response.res = "Ok"
    /\ response.rq.slots = <<>>
    /\ \E s \in Slots \cap DOMAIN timeSlot, n \in NewSlotIds \cap DOMAIN timeSlot :
          /\ timeSlot[s].status \in {"LOCKED", "BOOKED"}
          /\ timeSlot[s].date \in ExpandDates(response.rq.rule, response.rq.until)
          /\ timeSlot[s].startTime = response.rq.rule.startTime
          /\ timeSlot[s].endTime = response.rq.rule.endTime
          /\ timeSlot[n].date \in ExpandDates(response.rq.rule, response.rq.until)
          /\ timeSlot[n].startTime = response.rq.rule.startTime
          /\ timeSlot[n].endTime = response.rq.rule.endTime

----------------------------------------------------------------------------
(* C28.  Slots of one doctor never overlap.  In every reachable state,     *)
(* after any sequence of schedule updates, no two slots of the same doctor *)
(* on the same date have overlapping [startTime, endTime) intervals, and   *)
(* no two share the key (doctor, date, startTime, endTime).                *)
(* Checked under SpecSchedule.                                             *)

C28_SlotsNeverOverlap ==
    \A s, t \in DOMAIN timeSlot :
        (/\ s # t
         /\ timeSlot[s].doctorId = timeSlot[t].doctorId
         /\ timeSlot[s].date = timeSlot[t].date)
           => /\ ~(/\ timeSlot[s].startTime < timeSlot[t].endTime
                   /\ timeSlot[t].startTime < timeSlot[s].endTime)
              /\ ~(/\ timeSlot[s].startTime = timeSlot[t].startTime
                   /\ timeSlot[s].endTime = timeSlot[t].endTime)

\* A schedule update has been answered Ok and its slots are in the table.
C28_ScheduleStored ==
    /\ Answered("schedule")
    /\ response.res = "Ok"
    /\ \A i \in 1 .. Len(response.rq.slots) :
          \E s \in DOMAIN timeSlot :
             /\ timeSlot[s].doctorId = response.rq.user
             /\ timeSlot[s].date = response.rq.slots[i].date
             /\ timeSlot[s].startTime = response.rq.slots[i].startTime
             /\ timeSlot[s].endTime = response.rq.slots[i].endTime

----------------------------------------------------------------------------
(* C29.  ReleaseLock.  Called by the patient who holds the lock on a       *)
(* LOCKED slot, ReleaseLock sets the slot to AVAILABLE and deletes the     *)
(* SlotLock row, so that another patient's Reserve on the slot can         *)
(* succeed; when that patient holds no lock on the slot it answers         *)
(* NotFound and changes nothing.                                           *)
(* Checked under SpecRelease.                                              *)

C29_ReleaseLock ==
    [][\A p \in Patients, s \in SlotIds :
          ReleaseLock(p, s)
          => IF /\ s \in DOMAIN timeSlot
                /\ timeSlot[s].status = "LOCKED"
                /\ \E l \in slotLock : l.slotId = s /\ l.patientId = p
             THEN /\ timeSlot'[s].status = "AVAILABLE"
                  /\ ~\E l \in slotLock' : l.slotId = s
             ELSE /\ response'.res = "NotFound"
                  /\ timeSlot' = timeSlot
                  /\ slotLock' = slotLock
                  /\ appointment' = appointment]_vars

\* The holder of the lock has asked to release it, and the slot is LOCKED
\* with the holder's row in place.
C29_HolderNotReleased ==
    /\ Answered("release")
    /\ response.rq.slot \in DOMAIN timeSlot
    /\ timeSlot[response.rq.slot].status = "LOCKED"
    /\ \E l \in slotLock : /\ l.slotId = response.rq.slot
                           /\ l.patientId = response.rq.user

----------------------------------------------------------------------------
(* C30.  Collaborator failure does not undo the booking.  If the cache     *)
(* invalidation or the event emission that follows the state writes of     *)
(* lock, confirm or cancel fails, the slot, SlotLock and appointment state *)
(* already written by the operation is kept exactly as written: the step   *)
(* changes none of the three tables, whether the collaborators fail or not.*)
(* Checked under SpecNotify.                                               *)

C30_CollaboratorFailureKeepsState ==
    [][\A q \in InFlight, cacheFails \in BOOLEAN, emitFails \in BOOLEAN :
          (\/ LockNotify(q, cacheFails)
           \/ ConfirmNotify(q, cacheFails, emitFails)
           \/ CancelNotify(q, cacheFails))
          => /\ timeSlot' = timeSlot
             /\ slotLock' = slotLock
             /\ appointment' = appointment]_vars

\* The event emission of a confirm has failed, the request is answered with
\* an error, and the booking stands: the slot is BOOKED for the appointment,
\* the appointment is CONFIRMED and the lock row is gone.
C30_BookingStandsAfterFailure ==
    /\ Answered("confirm")
    /\ response.res = "Error"
    /\ response.rq.pc = "confirm_notify"
    /\ timeSlot[response.rq.slot].status = "BOOKED"
    /\ timeSlot[response.rq.slot].appointmentId = response.rq.appt
    /\ appointment[response.rq.appt].status = "CONFIRMED"
    /\ ~\E l \in slotLock : l.id = response.rq.lockId

----------------------------------------------------------------------------
(* C31.  Confirm records the patient's booking details.  The appointment   *)
(* created by Confirm carries the consultation mode, the symptoms and the  *)
(* notes the patient supplied for the booking, for both modes ONLINE and   *)
(* IN_PERSON, and not fixed default values.                                *)
(* Checked under SpecDetails, where each patient supplies their own        *)
(* details.                                                                *)

C31_ConfirmRecordsDetails ==
    \A a \in 1 .. Len(appointment) :
        /\ appointment[a].consultationMode
              = BookingDetails[appointment[a].patientId].consultationMode
        /\ appointment[a].symptoms = BookingDetails[appointment[a].patientId].symptoms
        /\ appointment[a].notes = BookingDetails[appointment[a].patientId].notes

\* A patient who asked for a consultation in person has confirmed and has
\* an appointment.
C31_InPersonConfirmed ==
    /\ Answered("confirm")
    /\ response.res = "Ok"
    /\ BookingDetails[response.rq.user].consultationMode = "IN_PERSON"
    /\ appointment[response.rq.appt].patientId = response.rq.user
    /\ appointment[response.rq.appt].status = "CONFIRMED"

----------------------------------------------------------------------------
(* C32.  Cancel only ever frees a BOOKED slot.  Whenever Cancel has passed *)
(* its checks and writes the slot, the slot it sets to AVAILABLE is at     *)
(* that moment BOOKED and linked to the appointment being cancelled; a     *)
(* Cancel repeated on a CANCELLED appointment never sets to AVAILABLE a    *)
(* slot that is LOCKED or BOOKED on behalf of another patient.             *)
(* Checked under SpecSeq.                                                  *)

C32_CancelFreesBookedSlot ==
    [][\A q \in InFlight :
          CancelSlot(q)
          => /\ timeSlot[q.slot].status = "BOOKED"
             /\ timeSlot[q.slot].appointmentId = q.appt]_vars

\* A cancel has been answered Ok and left AVAILABLE a slot on which another
\* patient holds a lock that has not expired.
C32_LockedSlotFreed ==
    /\ Answered("cancel")
    /\ response.res = "Ok"
    /\ timeSlot[response.rq.slot].status = "AVAILABLE"
    /\ \E l \in slotLock :
          /\ l.slotId = response.rq.slot
          /\ l.patientId # appointment[response.rq.appt].patientId
          /\ l.lockedUntil > now

----------------------------------------------------------------------------
(* C33.  A cancelled slot can be booked again.  After a successful Cancel  *)
(* of the appointment on a slot, a later Reserve on the slot followed by a *)
(* Confirm with the correct passcode before expiry, by the same or another *)
(* patient, succeeds and leaves the slot BOOKED with a CONFIRMED           *)
(* appointment for the confirming patient.                                 *)
(* Checked under SpecSeq: a confirm on a slot with a CANCELLED appointment *)
(* that has passed its checks (passcode, expiry, slot LOCKED) answers Ok.  *)

C33_CancelledSlotRebooked ==
    (/\ Answered("confirm")
     /\ response.rq.pc # "confirm_find"
     /\ \E a \in 1 .. Len(appointment) :
           /\ appointment[a].slotId = response.rq.slot
           /\ appointment[a].status = "CANCELLED")
      => /\ response.res = "Ok"
         /\ timeSlot[response.rq.slot].status = "BOOKED"
         /\ \E a \in 1 .. Len(appointment) :
               /\ appointment[a].slotId = response.rq.slot
               /\ appointment[a].patientId = response.rq.user
               /\ appointment[a].status = "CONFIRMED"

\* After a cancel the slot has been locked again, and the confirm with the
\* passcode of the new lock has been refused by the database.
C33_RebookingFails ==
    /\ Answered("confirm")
    /\ response.res = "Error"
    /\ response.rq.pc = "confirm_create"
    /\ timeSlot[response.rq.slot].status = "LOCKED"
    /\ \E a \in 1 .. Len(appointment) :
          /\ appointment[a].slotId = response.rq.slot
          /\ appointment[a].status = "CANCELLED"

----------------------------------------------------------------------------
(* C34.  The booker is the lock holder.  Every appointment created by      *)
(* Confirm has as its patient the patient who owns the slot's SlotLock at  *)
(* the moment of the creation and as its doctor the slot's doctor; no      *)
(* interleaving of Reserve and Confirm calls by several patients produces  *)
(* an appointment for a patient who did not hold the lock.                 *)
(* Checked under Spec.                                                     *)

C34_BookerHoldsLock ==
    [][\A q \in InFlight :
          (ConfirmCreate(q) /\ Len(appointment') = Len(appointment) + 1)
          => /\ appointment'[Len(appointment')].patientId = q.user
             /\ appointment'[Len(appointment')].slotId = q.slot
             /\ appointment'[Len(appointment')].doctorId = timeSlot[q.slot].doctorId
             /\ \E l \in slotLock : l.slotId = q.slot /\ l.patientId = q.user
             /\ \A l \in slotLock : l.slotId = q.slot => l.patientId = q.user]_vars

\* An appointment has been created for a patient while a request of another
\* patient for the same slot was in flight.
C34_CreatedBesideRival ==
    /\ Len(appointment) >= 1
    /\ \E q \in InFlight, r \in InFlight :
          /\ q.pc = "confirm_update"
          /\ appointment[q.appt].patientId = q.user
          /\ r.user # q.user
          /\ r.slot = q.slot

----------------------------------------------------------------------------
(* C35.  Schedule update preserves bookings.  A doctor's schedule update   *)
(* for a set of dates never deletes or changes a slot on those dates that  *)
(* is LOCKED or BOOKED, nor the SlotLock or the appointment attached to    *)
(* it; a CONFIRMED appointment still exists after any schedule update.     *)
(* Checked under SpecReschedule.                                           *)

C35_SchedulePreservesBookings ==
    [][\A q \in InFlight :
          (ScheduleDelete(q) \/ ScheduleCreate(q))
          => /\ \A s \in DOMAIN timeSlot :
                   timeSlot[s].status \in {"LOCKED", "BOOKED"}
                      => /\ s \in DOMAIN timeSlot'
                         /\ timeSlot'[s] = timeSlot[s]
                         /\ \A l \in slotLock : l.slotId = s => l \in slotLock'
             /\ \A a \in 1 .. Len(appointment) :
                   appointment[a].status = "CONFIRMED"
                      => /\ a <= Len(appointment')
                         /\ appointment'[a] = appointment[a]]_vars

\* A schedule update has been answered Ok and the appointment that was
\* CONFIRMED on a slot of its date is gone with the slot.
C35_BookingDeleted ==
    /\ Answered("schedule")
    /\ response.res = "Ok"
    /\ \E a \in 1 .. Len(appointment) :
          /\ appointment[a].status = "DELETED"
          /\ appointment[a].doctorId = response.rq.user
    /\ "s1" \notin DOMAIN timeSlot

----------------------------------------------------------------------------
(* C36.  The sweeper touches only expired locks.  A run of the clean-up    *)
(* job, or an OTP timer, never changes the status of a slot that is BOOKED *)
(* or AVAILABLE, never sets to AVAILABLE a LOCKED slot whose lock has not  *)
(* yet expired, and never deletes a SlotLock row whose expiry is still in  *)
(* the future.                                                             *)
(* Checked under SpecSweep.                                                *)

C36_SweeperTouchesOnlyExpired ==
    [][(CleanupLocks \/ CleanupSlots \/ \E p \in Patients : OtpExpires(p))
          => /\ \A s \in DOMAIN timeSlot :
                   /\ s \in DOMAIN timeSlot'
                   /\ timeSlot[s].status \in {"BOOKED", "AVAILABLE"}
                         => timeSlot'[s].status = timeSlot[s].status
                   /\ (timeSlot[s].status = "LOCKED" /\ timeSlot'[s].status # "LOCKED")
                         => /\ timeSlot'[s].status = "AVAILABLE"
                            /\ timeSlot[s].lockedUntil <= now
                            /\ \A l \in slotLock : l.slotId = s => l.lockedUntil <= now
             /\ \A l \in slotLock \ slotLock' : l.lockedUntil <= now]_vars

\* With no request in flight, a run of the job has ended: it has deleted
\* the expired lock row of a slot and released the slot.
C36_ExpiredSlotReleased ==
    /\ Answered("cleanup")
    /\ response.res = "Done"
    /\ inflight = EmptyBag
    /\ nextLockId > 1
    /\ \E s \in DOMAIN timeSlot :
          /\ timeSlot[s].status = "AVAILABLE"
          /\ timeSlot[s].updatedAt = now
          /\ timeSlot[s].lockedUntil # Null
          /\ timeSlot[s].lockedUntil < now
          /\ LocksOf(s) = {}

----------------------------------------------------------------------------
(* C37.  Passcode format.  generateOTP(n) returns a string of exactly n    *)
(* characters, each a decimal digit 0-9 (n = 6 by default); the passcode   *)
(* stored in the SlotLock and returned by Reserve is that same 6-digit     *)
(* string, and Confirm's length-6 check accepts it.                        *)
(* Checked under SpecOtp.                                                  *)

C37_PasscodeFormat ==
    /\ [](/\ otpRun.pc \in {"loop", "return"} => Len(otpRun.otp) = otpRun.i
          /\ otpRun.pc = "return" => Len(otpRun.otp) = otpRun.length
          /\ \A l \in slotLock : Len(l.otp) = 6
          /\ (Answered("lock") /\ response.res = "Ok")
                => \E l \in slotLock : /\ l.id = response.rq.lockId
                                       /\ l.otp = response.rq.otp)
    /\ [][/\ (\E r \in Randoms : generateOTPLoop(r))
                => \E d \in {"0", "1", "2", "3", "4", "5", "6", "7", "8", "9"} :
                      otpRun'.otp = otpRun.otp \o d
          /\ \A q \in InFlight :
                (LockCreateGenerated(q) /\ slotLock' # slotLock)
                   => /\ otpRun.length = 6
                      /\ \A l \in slotLock' \ slotLock : l.otp = otpRun.otp
          /\ \A l \in slotLock :
                ConfirmPost("p1", "s1", l.otp) => response'.res # "ValidationError"]_vars

\* A passcode generateOTP returned, with digits from both ends of the
\* alphabet, has been stored, returned and accepted by Confirm.
C37_GeneratedPasscodeConfirmed ==
    /\ Answered("confirm")
    /\ response.res = "Ok"
    /\ response.rq.otp = "091209"

====
